---- MODULE Spec2Model ----
(***************************************************************************)
(* Hover translation pipeline of VScodeTranslate.                          *)
(*                                                                         *)
(*   Spec    TranslationTaskManager (src/task/translation.ts), driven by   *)
(*           createTranslationTask calls with arbitrary batches.           *)
(*   SpecLC  LogicController.handleHover (src/controller.ts) on top of the *)
(*           task manager and the translation database; SpecLCFair adds    *)
(*           the fairness of the host and of the database, none of the     *)
(*           translation backend.                                          *)
(*   SpecHP  the hover provider (src/hover/provider.ts) with its           *)
(*           re-entrancy guard and background translation.                 *)
(*   SpecSQ  the paragraph renderer (src/markdown/MarkdownRenderer.ts):    *)
(*           the serial translation queue and triggerHoverRefresh, with    *)
(*           time in units of 500 ms.                                      *)
(*                                                                         *)
(* Every asynchronous function is cut at its await points: one action per  *)
(* continuation, which runs to the next await (run-to-completion of the    *)
(* event loop).                                                            *)
(***************************************************************************)
EXTENDS Integers, Sequences, FiniteSets, TLC

(***************************************************************************)
(* Bounds of the model.                                                    *)
(***************************************************************************)
\* number of createTranslationTask calls explored
MaxTasks == 4
\* number of LogicController.handleHover calls explored
MaxHoverCalls == 2
\* number of provideHover calls explored
MaxProvideCalls == 3
\* number of toggleMode commands the user gives
MaxToggles == 1
\* number of hover requests the user makes on paragraph hovers
MaxUserHovers == 2
\* number of retranslateParagraph commands the user gives
MaxRetranslates == 1
\* number of translateSingleParagraph calls the backend fails
MaxBackendFailures == 1

(***************************************************************************)
(* Program constants.                                                      *)
(***************************************************************************)
\* TranslationTaskManager.maxConcurrency
maxConcurrency == 3

(***************************************************************************)
(* Data.                                                                   *)
(***************************************************************************)
\* original texts of the segments that occur in the explored hovers
TextContents == {"alpha", "beta"}
CodeContents == {"code1"}
Contents == TextContents \cup CodeContents

\* TranslationDatabase.generateHash: sha256 of the text, collision free on Contents
generateHash(text) == <<"sha256", text>>

Hashes == {generateHash(c) : c \in Contents}

\* what the backend answers for a text when it answers (TranslationResponse.translatedText)
TranslationOf(text) == <<"zh", text>>

\* a TranslationData item as LogicController.prepareTranslationData builds it for a
\* segment without a stored translation (translatedText: '')
NewTranslationData(content, type) ==
    [hash |-> generateHash(content), type |-> type,
     originalText |-> content, translatedText |-> ""]

\* the batches handed to createTranslationTask: the untranslated segments of the
\* hovered documentation texts
Batches ==
    {<<NewTranslationData("alpha", "text")>>,
     <<NewTranslationData("alpha", "text"), NewTranslationData("beta", "text")>>,
     <<NewTranslationData("code1", "code"), NewTranslationData("beta", "text")>>}

HashesOf(batch) == {batch[i].hash : i \in 1..Len(batch)}

\* what the store holds for a hash: no row, or the row with its translated text
NoRow == <<>>
Row(translatedText) == <<translatedText>>
\* no text held by a task
NoResponse == <<>>
NoBatch == <<>>

VARIABLES
    \* TranslationTaskManager
    tasks,              \* taskId -> the task's closure state and its observable history
    nextTask,           \* number of task ids handed out so far + 1
    timers,             \* the pending 100 ms timers, in the order they were set
    pendingTasks,       \* keys of TranslationTaskManager.pendingTasks
    runningTasks,       \* TranslationTaskManager.runningTasks
    activeTranslations, \* keys of TranslationTaskManager.activeTranslations
    pendingHashes,      \* TranslationTaskManager.pendingHashes
    database,           \* translation_data: hash -> translated_text (NoRow: absent)
    \* LogicController
    hover,              \* call id -> the state of that handleHover call
    nextHover,          \* number of handleHover calls so far + 1
    lastHoverPositionKey,
    recentHover,        \* Date.now() - lastHoverTime < POSITION_THRESHOLD
    isEnabled,
    useWebviewPanel,
    \* PluginState (context.state)
    translationCache,   \* hash -> cache entry
    translating,        \* hashes being translated
    isInsideHover,
    showTranslated,
    \* hover provider
    provideCalls,       \* call id -> the state of that provideHover call
    nextProvide,        \* number of provideHover calls so far + 1
    backendCalls,       \* hashes with a translateText call outstanding
    refreshPending,     \* a timer of triggerHoverRefresh is pending
    lastHoverText,      \* the text of the hover the editor shows, "" for none
    toggles,            \* number of toggleMode commands so far
    \* MarkdownRenderer
    pendingParagraphs,  \* translationQueue.pendingParagraphs, as hashes
    isProcessing,       \* translationQueue.isProcessing
    queuePc,            \* processTranslationQueue: idle, call (awaiting the backend), delay
    refreshCooldown,
    refreshCount,
    clockTimers,        \* pending setTimeout callbacks: [id, left], left in units of 500 ms
    showHoverPending,   \* editor.action.showHover requested by triggerHoverRefresh, not resolved
    currentHover,       \* the paragraphs of the hover the editor shows, <<>> for none
    userHovers,         \* number of user hover requests so far
    retranslates,       \* number of retranslateParagraph commands so far
    backendFailures,    \* number of failed translateSingleParagraph calls so far
    failed,             \* hashes whose last backend call failed, not retranslated since
    unshown,            \* hashes settled since showHover was last requested or resolved
                        \* and the hover last rendered
    showHoverFailed,    \* the last editor.action.showHover command failed (its error was logged)
    \* cache module (src/cache/index.ts) and the extension's life cycle
    saveTimeout,        \* the timer of saveCacheDebounced is pending
    globalState,        \* globalState's 'translationCache': a set of <<hash, entry>>
    globalContext,      \* state.globalContext is set
    phase,              \* starting (activate has run), running, deactivated
    activations,        \* number of activate calls so far
    lastCall,           \* the last call of the cache module and what it returned
    savedBefore,        \* the unexpired entries the store held at the last deactivation
    \* TranslationDatabase (src/data/translation.ts) with all the columns it reads
    translation_data,   \* the table translation_data: a set of rows
    dbNow,              \* Date.now()
    dbCalls,            \* call id -> the state of that call of the database
    nextDbCall,         \* number of database calls so far + 1
    written,            \* hash -> the texts written since the row was inserted
    reads,              \* hash -> number of reads of the row since it was inserted
    \* TextSegmenter (src/utils.ts)
    segText,            \* the lines of the text given to segmentText, <<>> for none
    segDone,            \* segmentText has returned
    segResult,          \* the segments it returned
    \* the commands (src/commands/index.ts) and the service of the configuration
    serviceProvider,    \* config.serviceProvider
    switchCall,         \* the call of switchTranslationService
    configEvent,        \* the service of a configuration change the listener has not seen, "" for none
    serviceCalls,       \* the translateWithFactory calls outstanding, each with its hash and its service
    nextServiceCall,    \* the id of the next translateWithFactory call
    commands,           \* number of commands given
    producedBy,         \* history: the service whose call wrote the entry of a hash, "" for none
    oldProvider,        \* history: the service the last completed switch left, "" for none
    translatingAtSwitch, \* history: the in-flight set when the last switch completed
    retranslated,       \* history: the last retranslate command and the calls started since
    \* BaseTranslationService.httpRequest (src/translation/basetranslationservice.ts)
    httpNow,            \* the clock, in units of 10 s
    requests,           \* the httpRequest calls
    nextRequest,        \* the id of the next httpRequest call
    readsErrorBody,     \* the variant of httpRequest that reads the body of an error response
    \* TranslationDataManager.getTranslationsBatch (src/data/data.ts)
    batchCalls,         \* the getTranslationsBatch calls
    nextBatchCall,      \* the id of the next getTranslationsBatch call
    \* ConfigDatabase (src/data/config.ts)
    isInitialized,      \* the database manager was ready at construction
    service_config,     \* the rows of the table service_config
    configNow,          \* Date.now()
    configCalls,        \* the calls of its methods
    nextConfigCall      \* the id of the next call

varsTM == <<tasks, nextTask, timers, pendingTasks, runningTasks, activeTranslations,
            pendingHashes, database>>

varsLC == <<hover, nextHover, lastHoverPositionKey, recentHover, isEnabled,
            useWebviewPanel>>

varsPS == <<translationCache, translating>>

varsHP == <<isInsideHover, showTranslated, provideCalls, nextProvide, backendCalls,
            refreshPending, lastHoverText, toggles>>

varsSQ == <<pendingParagraphs, isProcessing, queuePc, refreshCooldown, refreshCount,
            clockTimers, showHoverPending, currentHover, userHovers, retranslates,
            backendFailures, failed, unshown, showHoverFailed>>

\* the persistence of the cache
varsGS == <<saveTimeout, globalState, savedBefore>>

\* the life cycle of the extension
varsLF == <<globalContext, phase, activations, lastCall>>

varsCM == <<varsGS, varsLF>>

varsDB == <<translation_data, dbNow, dbCalls, nextDbCall, written, reads>>

\* the components that are specified on their own
varsSG == <<segText, segDone, segResult>>

varsCD == <<serviceProvider, switchCall, configEvent, serviceCalls, nextServiceCall,
            commands, producedBy, oldProvider, translatingAtSwitch, retranslated>>

varsHR == <<httpNow, requests, nextRequest, readsErrorBody>>

\* the services specified on their own
varsDM == <<batchCalls, nextBatchCall>>

varsCF == <<isInitialized, service_config, configNow, configCalls, nextConfigCall>>

varsIO == <<varsHR, varsDM, varsCF>>

varsXT == <<varsDB, varsSG, varsCD, varsIO>>

vars == <<varsTM, varsLC, varsPS, varsHP, varsSQ, varsCM, varsXT>>

\* the fewest tasks that fill the concurrency loop: maxConcurrency past it and
\* maxConcurrency + 1 in it
GateTasks == 2 * maxConcurrency + 1

TaskIds == 1..(IF MaxTasks > GateTasks THEN MaxTasks ELSE GateTasks)

(***************************************************************************)
(* A task: the closure of one executeTask call.                            *)
(*   pc       none   id not handed out                                     *)
(*            timer  setTimeout(executeTask, 100) pending                  *)
(*            gate   awaiting the 100 ms sleep of the concurrency loop     *)
(*            call   awaiting service.translate for translations[idx]      *)
(*            db     awaiting databaseService.setTranslation for [idx]     *)
(*            done   executeTask has returned                              *)
(*   resp     the text handed to setTranslation while pc = db              *)
(*   aborted  signal.aborted                                               *)
(* History (never read by an action):                                      *)
(*   called      indices sent to the backend                               *)
(*   partial     indices for which onPartialTranslationComplete fired      *)
(*   complete / error   onTranslationComplete / onTranslationError fired   *)
(*   dup         indices whose hash was in pendingHashes when              *)
(*               createTranslationTask was called                          *)
(*   hasNew      hasNewHashes of that createTranslationTask call           *)
(*   abortedBy   "disjoint": aborted by the submission of a batch with no  *)
(*               hash of this task; "overlap": by one that shares a hash   *)
(***************************************************************************)
NoTask ==
    [batch |-> NoBatch, pc |-> "none", idx |-> 0, resp |-> NoResponse, aborted |-> FALSE,
     called |-> {}, partial |-> {}, complete |-> FALSE, error |-> FALSE,
     dup |-> {}, hasNew |-> FALSE, abortedBy |-> "none"]

InitTM ==
    /\ tasks = [t \in TaskIds |-> NoTask]
    /\ nextTask = 1
    /\ timers = <<>>
    /\ pendingTasks = {}
    /\ runningTasks = {}
    /\ activeTranslations = {}
    /\ pendingHashes = {}
    /\ database = [h \in Hashes |-> NoRow]

IsPassThrough_Never(translation) == FALSE

\* executeTask: "if (translation.type === 'code')"
IsPassThrough(translation) == translation.type = "code"

\* executeTask, the for loop from index i up to its next await: where it stops.
RECURSIVE LoopFrom(_, _, _)
LoopFrom(batch, i, aborted) ==
    IF i > Len(batch) THEN [kind |-> "end", idx |-> i]
    ELSE IF aborted THEN [kind |-> "end", idx |-> i]
    ELSE IF batch[i].translatedText # "" THEN LoopFrom(batch, i + 1, aborted)
    ELSE IF IsPassThrough(batch[i]) THEN [kind |-> "code", idx |-> i]
    ELSE [kind |-> "call", idx |-> i]

\* a finally block that leaves pendingHashes as it is
Finally_KeepsHashes(t, tk, run) ==
    /\ tasks' = [tasks EXCEPT ![t] = [tk EXCEPT !.pc = "done", !.idx = 0, !.resp = NoResponse]]
    /\ runningTasks' = run \ {t}
    /\ activeTranslations' = activeTranslations \ {t}
    /\ UNCHANGED pendingHashes

\* executeTask, finally block (after the try body has ended with task state tk)
Finally(t, tk, run) ==
    /\ tasks' = [tasks EXCEPT ![t] = [tk EXCEPT !.pc = "done", !.idx = 0, !.resp = NoResponse]]
    /\ runningTasks' = run \ {t}
    /\ activeTranslations' = activeTranslations \ {t}
    /\ pendingHashes' = pendingHashes \ HashesOf(tk.batch)

\* an executeTask that fires onTranslationComplete without the test of signal.aborted
Resume_CompletesAborted(t, tk, i, run) ==
    LET r == LoopFrom(tk.batch, i, tk.aborted) IN
    CASE r.kind = "call" ->
            /\ tasks' = [tasks EXCEPT ![t] =
                    [tk EXCEPT !.pc = "call", !.idx = r.idx, !.resp = NoResponse,
                               !.called = @ \cup {r.idx}]]
            /\ runningTasks' = run
            /\ UNCHANGED <<activeTranslations, pendingHashes>>
      [] r.kind = "code" ->
            /\ tasks' = [tasks EXCEPT ![t] =
                    [tk EXCEPT !.pc = "db", !.idx = r.idx,
                               !.resp = Row(tk.batch[r.idx].originalText)]]
            /\ runningTasks' = run
            /\ UNCHANGED <<activeTranslations, pendingHashes>>
      [] r.kind = "end" ->
            Finally(t, [tk EXCEPT !.complete = TRUE], run)

\* executeTask from "for (const translation of translations)" at index i on
Resume(t, tk, i, run) ==
    LET r == LoopFrom(tk.batch, i, tk.aborted) IN
    CASE r.kind = "call" ->
            /\ tasks' = [tasks EXCEPT ![t] =
                    [tk EXCEPT !.pc = "call", !.idx = r.idx, !.resp = NoResponse,
                               !.called = @ \cup {r.idx}]]
            /\ runningTasks' = run
            /\ UNCHANGED <<activeTranslations, pendingHashes>>
      [] r.kind = "code" ->
            /\ tasks' = [tasks EXCEPT ![t] =
                    [tk EXCEPT !.pc = "db", !.idx = r.idx,
                               !.resp = Row(tk.batch[r.idx].originalText)]]
            /\ runningTasks' = run
            /\ UNCHANGED <<activeTranslations, pendingHashes>>
      [] r.kind = "end" ->
            Finally(t, [tk EXCEPT !.complete = ~tk.aborted], run)

\* cancelPendingTasks, called by the createTranslationTask call for `translations`:
\* task.cancel() of every pending task and controller.abort() of every active one
CancelPendingTasks(translations) ==
    [u \in TaskIds |->
        IF u \in pendingTasks \cup activeTranslations
        THEN [tasks[u] EXCEPT
                !.aborted = TRUE,
                !.abortedBy =
                    IF tasks[u].aborted THEN @
                    ELSE IF HashesOf(tasks[u].batch) \cap HashesOf(translations) = {}
                         THEN "disjoint" ELSE "overlap"]
        ELSE tasks[u]]

\* createTranslationTask(translations)
CreateTranslationTask(translations) ==
    LET taskId == nextTask
        hasNewHashes == \E i \in 1..Len(translations) :
                            translations[i].hash \notin pendingHashes
        fresh == [NoTask EXCEPT
                    !.batch = translations, !.pc = "timer",
                    !.dup = {i \in 1..Len(translations) :
                                translations[i].hash \in pendingHashes},
                    !.hasNew = hasNewHashes]
    IN
    /\ nextTask \in TaskIds
    /\ nextTask' = nextTask + 1
    /\ timers' = Append(timers, <<"executeTask", taskId>>)
    /\ IF hasNewHashes
       THEN /\ tasks' = [CancelPendingTasks(translations) EXCEPT ![taskId] = fresh]
            /\ pendingTasks' = {taskId}
            /\ runningTasks' = {}
            /\ activeTranslations' = {taskId}
            /\ pendingHashes' = HashesOf(translations)
       ELSE /\ tasks' = [tasks EXCEPT ![taskId] = fresh]
            /\ pendingTasks' = pendingTasks \cup {taskId}
            /\ activeTranslations' = activeTranslations \cup {taskId}
            /\ pendingHashes' = pendingHashes \cup HashesOf(translations)
            /\ UNCHANGED runningTasks
    /\ UNCHANGED database

\* executeTask from its start (the 100 ms timer of createTranslationTask fires)
\* to its first await
ExecuteTask(t) ==
    /\ timers # <<>>
    /\ Head(timers) = <<"executeTask", t>>
    /\ pendingTasks' = pendingTasks \ {t}
    /\ IF tasks[t].aborted
       THEN /\ tasks' = [tasks EXCEPT ![t].pc = "done"]
            /\ timers' = Tail(timers)
            /\ UNCHANGED <<runningTasks, activeTranslations, pendingHashes>>
       ELSE IF Cardinality(runningTasks \cup {t}) > maxConcurrency
            THEN /\ tasks' = [tasks EXCEPT ![t].pc = "gate"]
                 /\ timers' = Append(Tail(timers), <<"sleep", t>>)
                 /\ runningTasks' = runningTasks \cup {t}
                 /\ UNCHANGED <<activeTranslations, pendingHashes>>
            ELSE /\ timers' = Tail(timers)
                 /\ Resume(t, tasks[t], 1, runningTasks \cup {t})
    /\ UNCHANGED <<nextTask, database>>

\* executeTask, the concurrency loop after its 100 ms sleep
GateWake(t) ==
    /\ timers # <<>>
    /\ Head(timers) = <<"sleep", t>>
    /\ IF tasks[t].aborted
       THEN /\ timers' = Tail(timers)
            /\ Finally(t, tasks[t], runningTasks)
       ELSE IF Cardinality(runningTasks) > maxConcurrency
            THEN /\ timers' = Append(Tail(timers), <<"sleep", t>>)
                 /\ UNCHANGED <<tasks, runningTasks, activeTranslations, pendingHashes>>
            ELSE /\ timers' = Tail(timers)
                 /\ Resume(t, tasks[t], 1, runningTasks)
    /\ UNCHANGED <<nextTask, pendingTasks, database>>

\* executeTask after "await service.translate(request)": ok, or the call threw
BackendReturn(t, ok) ==
    /\ tasks[t].pc = "call"
    /\ IF ok
       THEN /\ tasks' = [tasks EXCEPT ![t].pc = "db",
                    ![t].resp = Row(TranslationOf(tasks[t].batch[tasks[t].idx].originalText))]
            /\ UNCHANGED <<runningTasks, activeTranslations, pendingHashes>>
       ELSE Finally(t, [tasks[t] EXCEPT !.error = ~tasks[t].aborted], runningTasks)
    /\ UNCHANGED <<nextTask, timers, pendingTasks, database>>

\* executeTask after "await this.databaseService.setTranslation(...)"
DatabaseReturn(t) ==
    LET tk == tasks[t]
        item == tk.batch[tk.idx]
        told == [tk EXCEPT !.partial = @ \cup {tk.idx}]
    IN
    /\ tasks[t].pc = "db"
    /\ database' = [database EXCEPT ![generateHash(item.originalText)] = tk.resp]
    /\ Resume(t, told, tk.idx + 1, runningTasks)
    /\ UNCHANGED <<nextTask, timers, pendingTasks>>

NextTM ==
    \/ \E b \in Batches : nextTask <= MaxTasks /\ CreateTranslationTask(b) /\ UNCHANGED <<varsLC, varsPS, varsHP, varsSQ, varsCM, varsXT>>
    \/ \E t \in TaskIds : ExecuteTask(t) /\ UNCHANGED <<varsLC, varsPS, varsHP, varsSQ, varsCM, varsXT>>
    \/ \E t \in TaskIds : GateWake(t) /\ UNCHANGED <<varsLC, varsPS, varsHP, varsSQ, varsCM, varsXT>>
    \/ \E t \in TaskIds, ok \in BOOLEAN : BackendReturn(t, ok) /\ UNCHANGED <<varsLC, varsPS, varsHP, varsSQ, varsCM, varsXT>>
    \/ \E t \in TaskIds : DatabaseReturn(t) /\ UNCHANGED <<varsLC, varsPS, varsHP, varsSQ, varsCM, varsXT>>

(***************************************************************************)
(* LogicController.handleHover                                             *)
(*                                                                         *)
(* A call:                                                                 *)
(*   pc   none      not called yet                                         *)
(*        extract   awaiting extractDocumentationText                      *)
(*                  (vscode.executeHoverProvider)                          *)
(*        prepare   in prepareTranslationData, awaiting getByHash for      *)
(*                  segment k                                              *)
(*        display   prepareTranslationData has returned                    *)
(*        returned  handleHover has returned `result`                      *)
(*   task the id of the task it submitted, 0 for none                      *)
(*   stored  its segments that had a row when the call was made (history)  *)
(***************************************************************************)
\* number of handleHover calls explored for the guard against re-entry: the outer
\* call, a call at another position, and the call that re-enters
MaxReentryCalls == 3

HoverIds == 1..(IF MaxHoverCalls > MaxReentryCalls THEN MaxHoverCalls ELSE MaxReentryCalls)

TextSegment(content, type) == [type |-> type, content |-> content]

\* the documentation the host's hover providers give at a position, as
\* TextSegmenter.segmentText splits it; nothing at "p0"
Positions == {"p0", "p1", "p2"}
SegmentsAt(pos) ==
    CASE pos = "p1" -> <<TextSegment("alpha", "text"), TextSegment("beta", "text")>>
      [] pos = "p2" -> <<TextSegment("code1", "code"), TextSegment("beta", "text")>>
      [] OTHER -> <<>>

NoHover ==
    [pc |-> "none", pos |-> "", k |-> 0, results |-> <<>>, task |-> 0, result |-> "",
     stored |-> {}]

\* the segments at pos that have a row in the store, by their hashes
StoredHashes(pos) ==
    {hash \in {generateHash(SegmentsAt(pos)[k].content) : k \in 1..Len(SegmentsAt(pos))} :
        database[hash] # NoRow}

InitLC ==
    /\ hover = [h \in HoverIds |-> NoHover]
    /\ nextHover = 1
    /\ lastHoverPositionKey = ""
    /\ recentHover = FALSE
    /\ isEnabled \in BOOLEAN
    /\ useWebviewPanel \in BOOLEAN

\* isDuplicateHover(positionKey, currentTime)
isDuplicateHover(positionKey) ==
    lastHoverPositionKey = positionKey /\ recentHover

\* handleHover(document, position, token) up to "await extractDocumentationText"
HandleHover(h, pos) ==
    /\ h = nextHover
    /\ nextHover' = nextHover + 1
    /\ IF isDuplicateHover(pos)
       THEN /\ hover' = [hover EXCEPT ![h] =
                    [NoHover EXCEPT !.pc = "returned", !.pos = pos, !.result = "null"]]
            /\ UNCHANGED <<lastHoverPositionKey, recentHover>>
       ELSE /\ lastHoverPositionKey' = pos
            /\ recentHover' = TRUE
            /\ hover' = [hover EXCEPT ![h] =
                    IF isEnabled
                    THEN [NoHover EXCEPT !.pc = "extract", !.pos = pos,
                                         !.stored = StoredHashes(pos)]
                    ELSE [NoHover EXCEPT !.pc = "returned", !.pos = pos,
                                         !.result = "null"]]
    /\ UNCHANGED <<isEnabled, useWebviewPanel>>

\* POSITION_THRESHOLD ms have passed since lastHoverTime
ThresholdElapses ==
    /\ recentHover
    /\ recentHover' = FALSE
    /\ UNCHANGED <<hover, nextHover, lastHoverPositionKey, isEnabled, useWebviewPanel>>

\* handleHover after "await this.extractDocumentationText(...)" up to the first
\* "await this.databaseService.getByHash(hash)" of prepareTranslationData
ExtractReturn(h) ==
    /\ hover[h].pc = "extract"
    /\ hover' = [hover EXCEPT ![h] =
            IF SegmentsAt(hover[h].pos) = <<>>
            THEN [@ EXCEPT !.pc = "returned", !.result = "null"]
            ELSE [@ EXCEPT !.pc = "prepare", !.k = 1]]
    /\ UNCHANGED <<nextHover, lastHoverPositionKey, recentHover, isEnabled,
                   useWebviewPanel>>

\* prepareTranslationData after "await this.databaseService.getByHash(hash)" for
\* segment k: the cached row, or a new item with an empty translatedText
GetByHashReturn(h) ==
    LET segment == SegmentsAt(hover[h].pos)[hover[h].k]
        hash == generateHash(segment.content)
        cached == database[hash]
        item == IF NoRow # cached
                THEN [hash |-> hash, type |-> segment.type,
                      originalText |-> segment.content, translatedText |-> cached[1]]
                ELSE NewTranslationData(segment.content, segment.type)
    IN
    /\ hover[h].pc = "prepare"
    /\ hover' = [hover EXCEPT ![h] =
            [@ EXCEPT !.results = Append(@, item),
                      !.k = IF hover[h].k < Len(SegmentsAt(hover[h].pos))
                            THEN @ + 1 ELSE 0,
                      !.pc = IF hover[h].k < Len(SegmentsAt(hover[h].pos))
                             THEN "prepare" ELSE "display"]]
    /\ UNCHANGED <<nextHover, lastHoverPositionKey, recentHover, isEnabled,
                   useWebviewPanel>>

\* a filter that lets every item through
translationsToProcess_All(cachedResults) == cachedResults

\* cachedResults.filter(t => !t.translatedText)
RECURSIVE translationsToProcess(_)
translationsToProcess(cachedResults) ==
    IF cachedResults = <<>> THEN <<>>
    ELSE IF Head(cachedResults).translatedText = ""
         THEN <<Head(cachedResults)>> \o translationsToProcess(Tail(cachedResults))
         ELSE translationsToProcess(Tail(cachedResults))

\* a display handler that returns only once the task it submitted has ended
HandleHoverDisplay_AwaitsTask(h) ==
    /\ hover[h].pc = "display"
    /\ ~useWebviewPanel
    /\ IF hover[h].task = 0 /\ translationsToProcess(hover[h].results) # <<>>
       THEN /\ CreateTranslationTask(translationsToProcess(hover[h].results))
            /\ hover' = [hover EXCEPT ![h].task = nextTask]
       ELSE /\ hover[h].task # 0 => tasks[hover[h].task].pc = "done"
            /\ hover' = [hover EXCEPT ![h].pc = "returned", ![h].result = "hover"]
            /\ UNCHANGED <<varsTM, varsPS, varsHP, varsSQ, varsCM, varsXT>>
    /\ UNCHANGED <<nextHover, lastHoverPositionKey, recentHover, isEnabled,
                   useWebviewPanel>>

\* handleHover from "return this.handleHoverDisplay(cachedResults)" to its return
HandleHoverDisplay(h) ==
    /\ hover[h].pc = "display"
    /\ ~useWebviewPanel
    /\ IF translationsToProcess(hover[h].results) # <<>>
       THEN /\ CreateTranslationTask(translationsToProcess(hover[h].results))
            /\ hover' = [hover EXCEPT ![h].pc = "returned", ![h].result = "hover",
                                      ![h].task = nextTask]
       ELSE /\ hover' = [hover EXCEPT ![h].pc = "returned", ![h].result = "hover"]
            /\ UNCHANGED <<varsTM, varsPS, varsHP, varsSQ, varsCM, varsXT>>
    /\ UNCHANGED <<nextHover, lastHoverPositionKey, recentHover, isEnabled,
                   useWebviewPanel>>

\* handleHover from "return this.handleWebviewDisplay(cachedResults)" to its return
HandleWebviewDisplay(h) ==
    /\ hover[h].pc = "display"
    /\ useWebviewPanel
    /\ IF translationsToProcess(hover[h].results) # <<>>
       THEN /\ CreateTranslationTask(translationsToProcess(hover[h].results))
            /\ hover' = [hover EXCEPT ![h].pc = "returned", ![h].result = "null",
                                      ![h].task = nextTask]
       ELSE /\ hover' = [hover EXCEPT ![h].pc = "returned", ![h].result = "null"]
            /\ UNCHANGED <<varsTM, varsPS, varsHP, varsSQ, varsCM, varsXT>>
    /\ UNCHANGED <<nextHover, lastHoverPositionKey, recentHover, isEnabled,
                   useWebviewPanel>>

\* With at most maxConcurrency handleHover calls no task waits in the concurrency
\* loop of executeTask, so GateWake is not a step of this specification.
NextLC ==
    \/ \E h \in HoverIds, pos \in Positions : nextHover <= MaxHoverCalls /\ HandleHover(h, pos) /\ UNCHANGED <<varsTM, varsPS, varsHP, varsSQ, varsCM, varsXT>>
    \/ ThresholdElapses /\ UNCHANGED <<varsTM, varsPS, varsHP, varsSQ, varsCM, varsXT>>
    \/ \E h \in HoverIds : ExtractReturn(h) /\ UNCHANGED <<varsTM, varsPS, varsHP, varsSQ, varsCM, varsXT>>
    \/ \E h \in HoverIds : GetByHashReturn(h) /\ UNCHANGED <<varsTM, varsPS, varsHP, varsSQ, varsCM, varsXT>>
    \/ \E h \in HoverIds : HandleHoverDisplay(h) /\ UNCHANGED <<varsPS, varsHP, varsSQ, varsCM, varsXT>>
    \/ \E h \in HoverIds : HandleWebviewDisplay(h) /\ UNCHANGED <<varsPS, varsHP, varsSQ, varsCM, varsXT>>
    \/ \E t \in TaskIds : ExecuteTask(t) /\ UNCHANGED <<varsLC, varsPS, varsHP, varsSQ, varsCM, varsXT>>
    \/ \E t \in TaskIds, ok \in BOOLEAN : BackendReturn(t, ok) /\ UNCHANGED <<varsLC, varsPS, varsHP, varsSQ, varsCM, varsXT>>
    \/ \E t \in TaskIds : DatabaseReturn(t) /\ UNCHANGED <<varsLC, varsPS, varsHP, varsSQ, varsCM, varsXT>>

\* a step of a handleHover call after one of its awaits
ControllerStep ==
    \E h \in HoverIds :
        \/ ExtractReturn(h) /\ UNCHANGED <<varsTM, varsPS, varsHP, varsSQ, varsCM, varsXT>>
        \/ GetByHashReturn(h) /\ UNCHANGED <<varsTM, varsPS, varsHP, varsSQ, varsCM, varsXT>>
        \/ HandleHoverDisplay(h) /\ UNCHANGED <<varsPS, varsHP, varsSQ, varsCM, varsXT>>
        \/ HandleWebviewDisplay(h) /\ UNCHANGED <<varsPS, varsHP, varsSQ, varsCM, varsXT>>

\* what the host and the database guarantee: executeHoverProvider and getByHash
\* return, and a continuation that is ready runs
FairnessLC == WF_vars(ControllerStep)

(***************************************************************************)
(* PluginState: the in-memory translation cache (src/cache/index.ts)       *)
(***************************************************************************)
ParagraphTexts == {"p", "q"}

md5(text) == <<"md5", text>>

ParagraphHashes == {md5(x) : x \in ParagraphTexts}

NoEntry == [present |-> FALSE, text |-> <<>>, expired |-> FALSE]

isValidCache_Always(entry) == TRUE

\* isValidCache(entry): Date.now() - entry.time < CACHE_EXPIRE_TIME
isValidCache(entry) == ~entry.expired

\* getCachedTranslation(hash, state); "" is null
getCachedTranslation(hash, cache) ==
    IF cache[hash].present /\ isValidCache(cache[hash]) THEN cache[hash].text ELSE ""

\* setCachedTranslation(hash, original, text, state)
setCachedTranslation(hash, text, cache) ==
    [cache EXCEPT ![hash] = [present |-> TRUE, text |-> text, expired |-> FALSE]]

\* Object.fromEntries(state.translationCache), the value handed to globalState.update
ObjectFromEntries(cache) ==
    {<<h, cache[h]>> : h \in {x \in DOMAIN cache : cache[x].present}}

\* new Map(Object.entries(savedCache))
MapOfEntries(savedCache) ==
    [h \in ParagraphHashes |->
        IF \E e \in savedCache : e[1] = h
        THEN (CHOOSE e \in savedCache : e[1] = h)[2]
        ELSE NoEntry]

\* saveCacheDebounced(state): clearTimeout, then setTimeout(..., DEBOUNCE_DELAY);
\* the value is whether the timer is pending afterwards
saveCacheDebounced(timeout) == TRUE

\* the callback of saveCacheDebounced's timer
SaveTimerFires ==
    /\ saveTimeout
    /\ saveTimeout' = FALSE
    /\ globalState' = IF globalContext THEN ObjectFromEntries(translationCache)
                      ELSE globalState
    /\ UNCHANGED <<varsPS, savedBefore, varsLF>>

\* the stored copies of an entry are as old as the entry or older
ExpireIn(savedCache, hash) ==
    {IF e[1] = hash THEN <<hash, [e[2] EXCEPT !.expired = TRUE]>> ELSE e : e \in savedCache}

InitPS ==
    /\ translationCache = [h \in ParagraphHashes |-> NoEntry]
    /\ translating = {}

(***************************************************************************)
(* The hover provider: createHoverProvider.provideHover                    *)
(*                                                                         *)
(* A call:                                                                 *)
(*   pc      none      not called yet                                      *)
(*           await     past the guard, awaiting vscode.executeHoverProvider*)
(*           returned  provideHover has returned `result`                  *)
(*   result  guarded   undefined, from the guard                           *)
(*           none      undefined, from the body                            *)
(*           original, pending, translated: the hover it built             *)
(***************************************************************************)
ProvideIds == 1..MaxProvideCalls

NoProvide == [pc |-> "none", text |-> "", result |-> ""]

\* `❌ **翻译异常**：${String(err)}`
ErrorTextOf(text) == <<"error", text>>

InitHP ==
    /\ isInsideHover = FALSE
    /\ showTranslated = TRUE
    /\ provideCalls = [c \in ProvideIds |-> NoProvide]
    /\ nextProvide = 1
    /\ backendCalls = {}
    /\ refreshPending = FALSE
    /\ lastHoverText = ""
    /\ toggles = 0

\* a guard that gives up the flag when it turns a call away
ProvideHoverGuarded_ReleasesGuard(c, text) ==
    /\ provideCalls' = [provideCalls EXCEPT ![c] =
            [pc |-> "returned", text |-> text, result |-> "guarded"]]
    /\ isInsideHover' = FALSE

\* provideHover when context.state.isInsideHover: return
ProvideHoverGuarded(c, text) ==
    /\ provideCalls' = [provideCalls EXCEPT ![c] =
            [pc |-> "returned", text |-> text, result |-> "guarded"]]
    /\ UNCHANGED isInsideHover

\* provideHover(document, position) up to "await vscode.commands.executeCommand"
ProvideHover(c, text) ==
    /\ c = nextProvide
    /\ nextProvide' = nextProvide + 1
    /\ IF isInsideHover
       THEN ProvideHoverGuarded(c, text)
       ELSE /\ isInsideHover' = TRUE
            /\ provideCalls' = [provideCalls EXCEPT ![c] =
                    [pc |-> "await", text |-> text, result |-> ""]]

\* the editor asks for the hover at the pointer
HostProvideHover(c, text) ==
    /\ ProvideHover(c, text)
    /\ lastHoverText' = text
    /\ UNCHANGED <<varsPS, showTranslated, backendCalls, refreshPending, toggles>>

\* the timer of triggerHoverRefresh: editor.action.showHover, on which the editor
\* asks for the hover it shows
HoverRefreshFires(c) ==
    /\ refreshPending
    /\ refreshPending' = FALSE
    /\ IF lastHoverText # ""
       THEN ProvideHover(c, lastHoverText)
       ELSE UNCHANGED <<provideCalls, nextProvide, isInsideHover>>
    /\ UNCHANGED <<varsPS, showTranslated, backendCalls, lastHoverText, toggles>>

\* provideHover after "await vscode.commands.executeCommand": no hovers ("none"),
\* an exception ("throw"), or buildMarkdownContent with startBackgroundTranslation
\* ("text"); the finally block releases the guard
ExecuteHoverProviderReturn(c, outcome) ==
    LET text == provideCalls[c].text
        hash == md5(text)
        cachedText == getCachedTranslation(hash, translationCache)
        start == outcome = "text" /\ showTranslated /\ cachedText = ""
                    /\ hash \notin translating
    IN  /\ provideCalls[c].pc = "await"
        /\ provideCalls' = [provideCalls EXCEPT ![c] =
              [@ EXCEPT !.pc = "returned",
                        !.result = IF outcome # "text" THEN "none"
                                   ELSE IF ~showTranslated THEN "original"
                                   ELSE IF cachedText # "" THEN "translated"
                                   ELSE "pending"]]
        /\ translating' = IF start THEN translating \cup {hash} ELSE translating
        /\ backendCalls' = IF start THEN backendCalls \cup {hash} ELSE backendCalls
        /\ isInsideHover' = FALSE
        /\ UNCHANGED <<translationCache, showTranslated, nextProvide, refreshPending,
                       lastHoverText, toggles>>

\* startBackgroundTranslation: translateText settles (.then / .catch)
TranslateTextReturn(hash, ok) ==
    /\ hash \in backendCalls
    /\ backendCalls' = backendCalls \ {hash}
    /\ translating' = translating \ {hash}
    /\ translationCache' =
          setCachedTranslation(hash,
                               IF ok THEN TranslationOf(hash[2]) ELSE ErrorTextOf(hash[2]),
                               translationCache)
    /\ saveTimeout' = saveCacheDebounced(saveTimeout)
    /\ refreshPending' = TRUE
    /\ UNCHANGED <<isInsideHover, showTranslated, provideCalls, nextProvide,
                   lastHoverText, toggles, globalState, savedBefore>>

\* the command hoverTranslator.toggleMode
ToggleMode ==
    /\ toggles < MaxToggles
    /\ toggles' = toggles + 1
    /\ showTranslated' = ~showTranslated
    /\ refreshPending' = TRUE
    /\ UNCHANGED <<varsPS, isInsideHover, provideCalls, nextProvide, backendCalls,
                   lastHoverText>>

\* an entry grows older than CACHE_EXPIRE_TIME
CacheExpires(hash) ==
    /\ \/ translationCache[hash].present /\ ~translationCache[hash].expired
       \/ \E e \in globalState : e[1] = hash /\ ~e[2].expired
    /\ translationCache' =
          IF translationCache[hash].present
          THEN [translationCache EXCEPT ![hash].expired = TRUE]
          ELSE translationCache
    /\ globalState' = ExpireIn(globalState, hash)
    /\ savedBefore' = {e \in savedBefore : e[1] # hash}
    /\ UNCHANGED <<translating, varsHP, saveTimeout>>

NextHP ==
    \/ \E c \in ProvideIds, x \in ParagraphTexts :
            HostProvideHover(c, x) /\ UNCHANGED <<varsXT, varsTM, varsLC, varsSQ, varsCM>>
    \/ \E c \in ProvideIds : HoverRefreshFires(c) /\ UNCHANGED <<varsXT, varsTM, varsLC, varsSQ, varsCM>>
    \/ \E c \in ProvideIds, outcome \in {"none", "throw", "text"} :
            ExecuteHoverProviderReturn(c, outcome) /\ UNCHANGED <<varsXT, varsTM, varsLC, varsSQ, varsCM>>
    \/ \E h \in ParagraphHashes, ok \in BOOLEAN :
            TranslateTextReturn(h, ok) /\ UNCHANGED <<varsXT, varsTM, varsLC, varsSQ, varsLF>>
    \/ ToggleMode /\ UNCHANGED <<varsXT, varsTM, varsLC, varsSQ, varsCM>>
    \/ \E h \in ParagraphHashes : CacheExpires(h) /\ UNCHANGED <<varsXT, varsTM, varsLC, varsSQ, varsLF>>
    \/ SaveTimerFires /\ UNCHANGED <<varsXT, varsTM, varsLC, varsHP, varsSQ>>

(***************************************************************************)
(* The cache module (src/cache/index.ts) under arbitrary calls, and the    *)
(* life cycle of the extension: activate (initializeCache), the delayed    *)
(* initializeExtension, deactivate (flushCache).  An activation after a    *)
(* deactivation is a new extension host: the module state starts afresh    *)
(* and only globalState survives.  globalState.update takes effect at      *)
(* once.                                                                   *)
(***************************************************************************)
\* number of activate calls explored
MaxActivations == 2
\* number of calls of the cache module by the running extension explored
MaxCacheCalls == 3

NoCall == [n |-> 0, op |-> "none", hash |-> <<>>, text |-> "", count |-> 0]

\* a call by the running extension, which the bound MaxCacheCalls counts
Call(op, hash, text, count) ==
    [n |-> lastCall.n + 1, op |-> op, hash |-> hash, text |-> text, count |-> count]

\* a call by the life cycle
LifeCycleCall(op) ==
    [n |-> lastCall.n, op |-> op, hash |-> <<>>, text |-> "", count |-> 0]

InitCM ==
    /\ saveTimeout = FALSE
    /\ globalState = {}
    /\ globalContext = TRUE
    /\ phase = "running"
    /\ activations = 1
    /\ lastCall = NoCall
    /\ savedBefore = {}

\* what the cache module and the life cycle leave alone
restHP == <<isInsideHover, provideCalls, nextProvide, backendCalls, refreshPending,
            lastHoverText, toggles>>

\* setCachedTranslation(hash, original, text, state)
SetCachedTranslation(hash, text) ==
    /\ phase = "running"
    /\ lastCall.n < MaxCacheCalls
    /\ translationCache' = setCachedTranslation(hash, text, translationCache)
    /\ saveTimeout' = saveCacheDebounced(saveTimeout)
    /\ lastCall' = Call("setCachedTranslation", hash, text, 0)
    /\ UNCHANGED <<translating, globalState, savedBefore, globalContext, phase,
                   activations>>

\* deleteCache(hash, state)
DeleteCache(hash) ==
    /\ phase = "running"
    /\ lastCall.n < MaxCacheCalls
    /\ translationCache' = [translationCache EXCEPT ![hash] = NoEntry]
    /\ saveTimeout' = saveCacheDebounced(saveTimeout)
    /\ lastCall' = Call("deleteCache", hash, "", 0)
    /\ UNCHANGED <<translating, globalState, savedBefore, globalContext, phase,
                   activations>>

\* getCachedTranslation(hash, state), with what it returns
GetCachedTranslation(hash) ==
    /\ phase = "running"
    /\ lastCall.n < MaxCacheCalls
    /\ lastCall' = Call("getCachedTranslation", hash,
                        getCachedTranslation(hash, translationCache), 0)
    /\ UNCHANGED <<varsPS, varsGS, globalContext, phase, activations>>

\* cleanupExpiredCache(state) as a function of the cache: the cache it leaves and
\* the number it returns
cleanupExpiredCache(cache) ==
    LET expired == {h \in DOMAIN cache : cache[h].present /\ ~isValidCache(cache[h])}
    IN  [cache |-> [h \in DOMAIN cache |-> IF h \in expired THEN NoEntry ELSE cache[h]],
         count |-> Cardinality(expired)]

CleanupExpiredCache ==
    LET r == cleanupExpiredCache(translationCache)
    IN  /\ phase = "running"
        /\ lastCall.n < MaxCacheCalls
        /\ translationCache' = r.cache
        /\ saveTimeout' = IF r.count > 0 THEN saveCacheDebounced(saveTimeout)
                          ELSE saveTimeout
        /\ lastCall' = Call("cleanupExpiredCache", <<>>, "", r.count)
        /\ UNCHANGED <<translating, globalState, savedBefore, globalContext, phase,
                       activations>>

\* flushCache(state) as a function of [timeout, store, cache, context]: the timer
\* and the store it leaves
flushCache_KeepsStore(r) == [timeout |-> FALSE, store |-> r.store]

flushCache(r) ==
    [timeout |-> FALSE,
     store |-> IF r.context THEN ObjectFromEntries(r.cache) ELSE r.store]

\* deactivate
Deactivate ==
    LET r == flushCache([timeout |-> saveTimeout, store |-> globalState,
                         cache |-> translationCache, context |-> globalContext])
    IN  /\ phase \in {"starting", "running"}
        /\ saveTimeout' = r.timeout
        /\ globalState' = r.store
        /\ savedBefore' = {e \in r.store : ~e[2].expired}
        /\ phase' = "deactivated"
        /\ lastCall' = LifeCycleCall("flushCache")
        /\ UNCHANGED <<varsPS, globalContext, activations>>

\* activate in a new extension host, up to the timer that delays
\* initializeExtension: initializeCache.  'showTranslated' is never stored with a
\* value other than true.
Activate ==
    /\ phase = "deactivated"
    /\ activations < MaxActivations
    /\ activations' = activations + 1
    /\ translating' = {}
    /\ saveTimeout' = FALSE
    /\ translationCache' = MapOfEntries(globalState)
    /\ globalContext' = TRUE
    /\ showTranslated' = TRUE
    /\ phase' = "starting"
    /\ lastCall' = LifeCycleCall("initializeCache")
    /\ UNCHANGED <<globalState, savedBefore, restHP>>

\* initializeExtension, which ends with clearAllCache(pluginContext.state)
InitializeExtension ==
    /\ phase = "starting"
    /\ translationCache' = [h \in DOMAIN translationCache |-> NoEntry]
    /\ saveTimeout' = FALSE
    /\ globalState' = IF globalContext THEN {} ELSE globalState
    /\ showTranslated' = IF globalContext THEN TRUE ELSE showTranslated
    /\ phase' = "running"
    /\ lastCall' = LifeCycleCall("clearAllCache")
    /\ UNCHANGED <<translating, savedBefore, globalContext, activations, restHP>>

NextCM ==
    \/ \E h \in ParagraphHashes, ok \in BOOLEAN :
            /\ SetCachedTranslation(h, IF ok THEN TranslationOf(h[2]) ELSE ErrorTextOf(h[2]))
            /\ UNCHANGED <<varsXT, varsTM, varsLC, varsHP, varsSQ>>
    \/ \E h \in ParagraphHashes : DeleteCache(h) /\ UNCHANGED <<varsXT, varsTM, varsLC, varsHP, varsSQ>>
    \/ \E h \in ParagraphHashes :
            GetCachedTranslation(h) /\ UNCHANGED <<varsXT, varsTM, varsLC, varsHP, varsSQ>>
    \/ CleanupExpiredCache /\ UNCHANGED <<varsXT, varsTM, varsLC, varsHP, varsSQ>>
    \/ \E h \in ParagraphHashes : CacheExpires(h) /\ UNCHANGED <<varsXT, varsTM, varsLC, varsSQ, varsLF>>
    \/ SaveTimerFires /\ UNCHANGED <<varsXT, varsTM, varsLC, varsHP, varsSQ>>
    \/ Deactivate /\ UNCHANGED <<varsXT, varsTM, varsLC, varsHP, varsSQ>>
    \/ Activate /\ UNCHANGED <<varsXT, varsTM, varsLC, varsSQ>>
    \/ InitializeExtension /\ UNCHANGED <<varsXT, varsTM, varsLC, varsSQ>>

(***************************************************************************)
(* MarkdownRenderer: rendering, the serial queue and triggerHoverRefresh.  *)
(* Time is counted in units of 500 ms.  A timer is [id, left]; it fires    *)
(* when left = 0, and time does not pass while a timer is due.  The delays *)
(* of 100 ms are shorter than a unit: such a timer is due before the       *)
(* clock's next tick, in any order with the other steps.                   *)
(***************************************************************************)
\* setTimeout delays, in units of 500 ms
RefreshDebounceDelay == 1
RefreshCooldownDelay == 2
RefreshCountResetDelay == 10
QueueDelay == 0
CommandRefreshDelay == 0

MAX_REFRESH_COUNT == 10

Timer(id, left) == [id |-> id, left |-> left]
Due(id) == Timer(id, 0)

\* the hover texts, as splitIntoParagraphs splits them
Documents == {<<"p", "q">>, <<"q">>}
NoDocument == <<>>

InitSQ ==
    /\ pendingParagraphs = <<>>
    /\ isProcessing = FALSE
    /\ queuePc = "idle"
    /\ refreshCooldown = FALSE
    /\ refreshCount = 0
    /\ clockTimers = {}
    /\ showHoverPending = FALSE
    /\ currentHover = NoDocument
    /\ userHovers = 0
    /\ retranslates = 0
    /\ backendFailures = 0
    /\ failed = {}
    /\ unshown = {}
    /\ showHoverFailed = FALSE

\* a triggerHoverRefresh() without the test of refreshCooldown
TriggerHoverRefresh_NoCooldown(r) ==
    IF r.count >= MAX_REFRESH_COUNT THEN r
    ELSE [cooldown |-> TRUE,
          count |-> r.count + 1,
          timers |-> {tm \in r.timers : tm.id # "refresh"}
                        \cup {Timer("refresh", RefreshDebounceDelay),
                              Timer("reset", RefreshCountResetDelay)}]

\* triggerHoverRefresh(), on r = [cooldown, count, timers]
TriggerHoverRefresh(r) ==
    IF r.cooldown THEN r
    ELSE IF r.count >= MAX_REFRESH_COUNT THEN r
    ELSE [cooldown |-> TRUE,
          count |-> r.count + 1,
          timers |-> {tm \in r.timers : tm.id # "refresh"}
                        \cup {Timer("refresh", RefreshDebounceDelay),
                              Timer("reset", RefreshCountResetDelay)}]

\* a rendering that puts a paragraph at the front of the queue
RECURSIVE RenderFrom_Unshift(_, _, _)
RenderFrom_Unshift(paragraphs, i, q) ==
    IF i > Len(paragraphs) THEN q
    ELSE LET hash == md5(paragraphs[i])
         IN IF getCachedTranslation(hash, translationCache) = "" /\ hash \notin q.translating
            THEN RenderFrom_Unshift(paragraphs, i + 1,
                                    [queue |-> <<hash>> \o q.queue,
                                     translating |-> q.translating \cup {hash}])
            ELSE RenderFrom_Unshift(paragraphs, i + 1, q)

\* generateParagraphTranslations, renderTranslatedContent and startParagraphTranslation
\* for the paragraphs from i on, on q = [queue, translating]: a paragraph with no
\* cached translation that is not being translated is put in the queue
RECURSIVE RenderFrom(_, _, _)
RenderFrom(paragraphs, i, q) ==
    IF i > Len(paragraphs) THEN q
    ELSE LET hash == md5(paragraphs[i])
         IN IF getCachedTranslation(hash, translationCache) = "" /\ hash \notin q.translating
            THEN RenderFrom(paragraphs, i + 1,
                            [queue |-> Append(q.queue, hash),
                             translating |-> q.translating \cup {hash}])
            ELSE RenderFrom(paragraphs, i + 1, q)

\* the hover provider on the text `paragraphs`: buildMarkdownContent on the result
\* of generateParagraphTranslations; processTranslationQueue starts if it is not
\* running and runs up to its first backend call
ProvideParagraphHover(paragraphs) ==
    LET q == IF isEnabled
             THEN RenderFrom(paragraphs, 1,
                             [queue |-> pendingParagraphs, translating |-> translating])
             ELSE [queue |-> pendingParagraphs, translating |-> translating]
    IN  /\ pendingParagraphs' = q.queue
        /\ translating' = q.translating
        /\ IF ~isProcessing /\ q.queue # <<>>
           THEN isProcessing' = TRUE /\ queuePc' = "call"
           ELSE UNCHANGED <<isProcessing, queuePc>>

\* the user moves the pointer: the editor asks the hover provider
UserHover(paragraphs) ==
    /\ userHovers < MaxUserHovers
    /\ userHovers' = userHovers + 1
    /\ currentHover' = paragraphs
    /\ ProvideParagraphHover(paragraphs)
    /\ unshown' = {}
    /\ UNCHANGED showHoverFailed
    /\ UNCHANGED <<translationCache, refreshCooldown, refreshCount, clockTimers,
                   showHoverPending, retranslates, backendFailures, failed>>

\* 500 ms pass
Tick ==
    /\ clockTimers # {}
    /\ \A tm \in clockTimers : tm.left > 0
    /\ clockTimers' = {Timer(tm.id, tm.left - 1) : tm \in clockTimers}
    /\ UNCHANGED <<varsPS, pendingParagraphs, isProcessing, queuePc, refreshCooldown,
                   refreshCount, showHoverPending, currentHover, userHovers,
                   retranslates, backendFailures, failed, unshown, showHoverFailed>>

\* processTranslationQueue from the return of translateSingleParagraph to
\* "await new Promise(resolve => setTimeout(resolve, 100))"
TranslateSingleParagraphReturn(ok) ==
    LET hash == Head(pendingParagraphs)
        r == TriggerHoverRefresh([cooldown |-> refreshCooldown, count |-> refreshCount,
                                  timers |-> clockTimers])
    IN  /\ queuePc = "call"
        /\ ~ok => backendFailures < MaxBackendFailures
        /\ backendFailures' = IF ok THEN backendFailures ELSE backendFailures + 1
        /\ translating' = translating \ {hash}
        /\ translationCache' =
              IF ok THEN setCachedTranslation(hash, TranslationOf(hash[2]), translationCache)
              ELSE translationCache
        /\ saveTimeout' = IF ok THEN saveCacheDebounced(saveTimeout) ELSE saveTimeout
        /\ failed' = IF ok THEN failed \ {hash} ELSE failed \cup {hash}
        /\ unshown' = IF refreshCount < MAX_REFRESH_COUNT THEN unshown \cup {hash}
                      ELSE unshown
        /\ UNCHANGED showHoverFailed
        /\ refreshCooldown' = r.cooldown
        /\ refreshCount' = r.count
        /\ clockTimers' = r.timers \cup {Timer("queue", QueueDelay)}
        /\ pendingParagraphs' = Tail(pendingParagraphs)
        /\ queuePc' = "delay"
        /\ UNCHANGED <<isProcessing, showHoverPending, currentHover, userHovers,
                       retranslates, globalState, savedBefore>>

\* a loop that ends after one paragraph whatever the queue holds
QueueDelayFires_EndsLoop ==
    /\ Due("queue") \in clockTimers
    /\ queuePc = "delay"
    /\ clockTimers' = clockTimers \ {Due("queue")}
    /\ queuePc' = "idle"
    /\ isProcessing' = FALSE
    /\ UNCHANGED <<varsPS, pendingParagraphs, refreshCooldown, refreshCount,
                   showHoverPending, currentHover, userHovers, retranslates,
                   backendFailures, failed, unshown, showHoverFailed>>

\* processTranslationQueue after the 100 ms delay: the next paragraph, or the end
QueueDelayFires ==
    /\ Due("queue") \in clockTimers
    /\ queuePc = "delay"
    /\ clockTimers' = clockTimers \ {Due("queue")}
    /\ IF pendingParagraphs # <<>>
       THEN queuePc' = "call" /\ UNCHANGED isProcessing
       ELSE queuePc' = "idle" /\ isProcessing' = FALSE
    /\ UNCHANGED <<varsPS, pendingParagraphs, refreshCooldown, refreshCount,
                   showHoverPending, currentHover, userHovers, retranslates,
                   backendFailures, failed, unshown, showHoverFailed>>

\* the debounce timer of triggerHoverRefresh: editor.action.showHover is requested
RefreshTimerFires ==
    /\ Due("refresh") \in clockTimers
    /\ clockTimers' = clockTimers \ {Due("refresh")}
    /\ showHoverPending' = TRUE
    /\ unshown' = {}
    /\ showHoverFailed' = FALSE
    /\ UNCHANGED <<varsPS, pendingParagraphs, isProcessing, queuePc, refreshCooldown,
                   refreshCount, currentHover, userHovers, retranslates, backendFailures,
                   failed>>

\* a showHover whose failure skips the second then(): no cooldown timer is set
ShowHoverReturn_FailureKeepsCooldown(ok) ==
    /\ showHoverPending
    /\ showHoverPending' = FALSE
    /\ clockTimers' = IF ok THEN clockTimers \cup {Timer("cooldown", RefreshCooldownDelay)}
                      ELSE clockTimers
    /\ IF ok /\ currentHover # NoDocument
       THEN ProvideParagraphHover(currentHover)
       ELSE UNCHANGED <<translating, pendingParagraphs, isProcessing, queuePc>>
    /\ unshown' = {}
    /\ showHoverFailed' = ~ok
    /\ UNCHANGED <<translationCache, refreshCooldown, refreshCount, currentHover,
                   userHovers, retranslates, backendFailures, failed>>

\* editor.action.showHover resolves (the editor has asked the hover provider for the
\* hover it shows) or fails; either way the cooldown timer is set
ShowHoverReturn(ok) ==
    /\ showHoverPending
    /\ showHoverPending' = FALSE
    /\ clockTimers' = clockTimers \cup {Timer("cooldown", RefreshCooldownDelay)}
    /\ IF ok /\ currentHover # NoDocument
       THEN ProvideParagraphHover(currentHover)
       ELSE UNCHANGED <<translating, pendingParagraphs, isProcessing, queuePc>>
    /\ unshown' = {}
    /\ showHoverFailed' = ~ok
    /\ UNCHANGED <<translationCache, refreshCooldown, refreshCount, currentHover,
                   userHovers, retranslates, backendFailures, failed>>

\* the cooldown timer: refreshCooldown = false
CooldownTimerFires ==
    /\ Due("cooldown") \in clockTimers
    /\ clockTimers' = clockTimers \ {Due("cooldown")}
    /\ refreshCooldown' = FALSE
    /\ UNCHANGED <<varsPS, pendingParagraphs, isProcessing, queuePc, refreshCount,
                   showHoverPending, currentHover, userHovers, retranslates,
                   backendFailures, failed, unshown, showHoverFailed>>

\* the counter timer: refreshCount = 0
ResetTimerFires ==
    /\ Due("reset") \in clockTimers
    /\ clockTimers' = clockTimers \ {Due("reset")}
    /\ refreshCount' = 0
    /\ UNCHANGED <<varsPS, pendingParagraphs, isProcessing, queuePc, refreshCooldown,
                   showHoverPending, currentHover, userHovers, retranslates,
                   backendFailures, failed, unshown, showHoverFailed>>

\* the command VScodeTranslator.retranslateParagraph(paragraphHash)
RetranslateParagraph(hash) ==
    /\ retranslates < MaxRetranslates
    /\ retranslates' = retranslates + 1
    /\ translationCache' = [translationCache EXCEPT ![hash] = NoEntry]
    /\ translating' = translating \ {hash}
    /\ failed' = failed \ {hash}
    /\ clockTimers' = clockTimers \cup {Timer("command", CommandRefreshDelay)}
    /\ UNCHANGED <<pendingParagraphs, isProcessing, queuePc, refreshCooldown,
                   refreshCount, showHoverPending, currentHover, userHovers,
                   backendFailures, unshown, showHoverFailed>>

\* the timer of the commands' triggerHoverRefresh: editor.action.showHover
CommandTimerFires ==
    /\ Due("command") \in clockTimers
    /\ clockTimers' = clockTimers \ {Due("command")}
    /\ IF currentHover # NoDocument
       THEN ProvideParagraphHover(currentHover)
       ELSE UNCHANGED <<translating, pendingParagraphs, isProcessing, queuePc>>
    /\ unshown' = {}
    /\ UNCHANGED showHoverFailed
    /\ UNCHANGED <<translationCache, refreshCooldown, refreshCount, showHoverPending,
                   currentHover, userHovers, retranslates, backendFailures, failed>>

NextSQ ==
    \/ \E d \in Documents : UserHover(d) /\ UNCHANGED <<varsXT, varsTM, varsLC, varsHP, varsCM>>
    \/ Tick /\ UNCHANGED <<varsXT, varsTM, varsLC, varsHP, varsCM>>
    \/ \E ok \in BOOLEAN : TranslateSingleParagraphReturn(ok) /\ UNCHANGED <<varsXT, varsTM, varsLC, varsHP, varsLF>>
    \/ QueueDelayFires /\ UNCHANGED <<varsXT, varsTM, varsLC, varsHP, varsCM>>
    \/ RefreshTimerFires /\ UNCHANGED <<varsXT, varsTM, varsLC, varsHP, varsCM>>
    \/ \E ok \in BOOLEAN : ShowHoverReturn(ok) /\ UNCHANGED <<varsXT, varsTM, varsLC, varsHP, varsCM>>
    \/ CooldownTimerFires /\ UNCHANGED <<varsXT, varsTM, varsLC, varsHP, varsCM>>
    \/ ResetTimerFires /\ UNCHANGED <<varsXT, varsTM, varsLC, varsHP, varsCM>>
    \/ \E h \in ParagraphHashes : RetranslateParagraph(h) /\ UNCHANGED <<varsXT, varsTM, varsLC, varsHP, varsCM>>
    \/ CommandTimerFires /\ UNCHANGED <<varsXT, varsTM, varsLC, varsHP, varsCM>>
    \/ SaveTimerFires /\ UNCHANGED <<varsXT, varsTM, varsLC, varsHP, varsSQ>>

(***************************************************************************)
(* TranslationDatabase (src/data/translation.ts) under arbitrary calls.    *)
(* A call hands its statements to sqlite3, which runs each of them         *)
(* atomically, later, in no guaranteed order with the statements of the    *)
(* other outstanding calls; Date.now() is read when the call is made.  The *)
(* columns type and language are stored as given and read by no statement  *)
(* modelled here.  `database` above is this table seen through             *)
(* translated_text alone.                                                  *)
(***************************************************************************)
\* number of calls of the database explored
MaxDbCalls == 3
\* the last value of Date.now() explored
MaxDbClock == 1
\* retentionDays of cleanupExpiredData, in units of the clock
RetentionTime == 0

DbCallIds == 1..MaxDbCalls

\* the original the explored calls write and read
DbOriginals == {"alpha"}

\* the original of the row an earlier session may have left in the table
StoredOriginal == "beta"

DbHashes == {generateHash(x) : x \in DbOriginals \cup {StoredOriginal}}

\* a second translation of a text, as a later call of the backend may give it
Retranslated(text) == <<"zh2", text>>

\* null
DbNull == <<>>

\* a call that has resolved keeps what it resolved with
Resolved(call, result, count) ==
    [op |-> call.op, pc |-> "done", hash |-> call.hash, original |-> "",
     text |-> DbNull, now |-> 0, result |-> result, count |-> count,
     expired |-> call.expired]

NoDbCall == [op |-> "none", pc |-> "none", hash |-> DbNull, original |-> "",
             text |-> DbNull, now |-> 0, result |-> DbNull, count |-> 0,
             expired |-> FALSE]

RowsOf(table, hash) == {r \in table : r.hash = hash}

\* the rows of the table last accessed before cutoffTime
ExpiredRows(table, cutoffTime) == {r \in table : r.last_access_time < cutoffTime}

\* the row setTranslation(StoredOriginal, ...) inserted in an earlier session
StoredRow ==
    [hash |-> generateHash(StoredOriginal), original_text |-> StoredOriginal,
     translated_text |-> TranslationOf(StoredOriginal), create_time |-> 0,
     last_access_time |-> 0, access_count |-> 1]

\* the state after initializeTables on the table `table`
InitDBOn(table) ==
    /\ translation_data = table
    /\ dbNow = 0
    /\ dbCalls = [c \in DbCallIds |-> NoDbCall]
    /\ nextDbCall = 1
    /\ written = [h \in DbHashes |->
                     IF RowsOf(translation_data, h) = {} THEN <<>>
                     ELSE <<TranslationOf(StoredOriginal)>>]
    /\ reads = [h \in DbHashes |-> 0]

\* a new database file
InitDB == InitDBOn({})

\* the database file outlives the session: the table is empty or holds StoredRow
InitDBStored == \E table \in {{}, {StoredRow}} : InitDBOn(table)

\* INSERT OR REPLACE INTO translation_data ... with create_time = now and
\* access_count = 1 whatever the table holds
setTranslationSQL_PlainReplace(table, hash, originalText, translatedText, now) ==
    (table \ RowsOf(table, hash))
        \cup {[hash |-> hash, original_text |-> originalText,
               translated_text |-> translatedText, create_time |-> now,
               last_access_time |-> now, access_count |-> 1]}

\* the statement of setTranslation: INSERT OR REPLACE INTO translation_data ...
\* VALUES (..., COALESCE((SELECT create_time ...), now), now,
\*         COALESCE((SELECT access_count + 1 ...), 1))
setTranslationSQL(table, hash, originalText, translatedText, now) ==
    LET old == RowsOf(table, hash)
        row == CHOOSE r \in old : TRUE
    IN  (table \ old)
            \cup {[hash |-> hash, original_text |-> originalText,
                   translated_text |-> translatedText,
                   create_time |-> IF old = {} THEN now ELSE row.create_time,
                   last_access_time |-> now,
                   access_count |-> IF old = {} THEN 1 ELSE row.access_count + 1]}

\* UPDATE translation_data SET last_access_time = ?, access_count = access_count + 1
\* WHERE hash = ?
updateAccessSQL(table, hash, now) ==
    {IF r.hash = hash
     THEN [r EXCEPT !.last_access_time = now, !.access_count = r.access_count + 1]
     ELSE r : r \in table}

\* DELETE FROM translation_data WHERE last_access_time < ?
cleanupExpiredDataSQL(table, cutoffTime) ==
    {r \in table : ~(r.last_access_time < cutoffTime)}

\* setTranslation(originalText, translatedText) up to db.run
SetTranslation(c, originalText, translatedText) ==
    /\ c = nextDbCall
    /\ nextDbCall' = nextDbCall + 1
    /\ dbCalls' = [dbCalls EXCEPT ![c] =
                      [NoDbCall EXCEPT !.op = "setTranslation", !.pc = "run",
                                       !.hash = generateHash(originalText),
                                       !.original = originalText,
                                       !.text = translatedText, !.now = dbNow]]
    /\ UNCHANGED <<translation_data, dbNow, written, reads>>

\* sqlite3 runs the statement of setTranslation
SetTranslationRun(c) ==
    LET call == dbCalls[c]
    IN  /\ call.op = "setTranslation"
        /\ call.pc = "run"
        /\ translation_data' = setTranslationSQL(translation_data, call.hash, call.original,
                                                 call.text, call.now)
        /\ written' = [written EXCEPT ![call.hash] = Append(@, call.text)]
        /\ dbCalls' = [dbCalls EXCEPT ![c] = Resolved(call, DbNull, 0)]
        /\ UNCHANGED <<dbNow, nextDbCall, reads>>

\* getTranslation(originalText) up to the db.run of its UPDATE
GetTranslation(c, originalText) ==
    /\ c = nextDbCall
    /\ nextDbCall' = nextDbCall + 1
    /\ dbCalls' = [dbCalls EXCEPT ![c] =
                      [NoDbCall EXCEPT !.op = "getTranslation", !.pc = "update",
                                       !.hash = generateHash(originalText),
                                       !.original = originalText, !.now = dbNow]]
    /\ UNCHANGED <<translation_data, dbNow, written, reads>>

\* getByHash(hash) up to the db.run of its UPDATE
GetByHash(c, hash) ==
    /\ c = nextDbCall
    /\ nextDbCall' = nextDbCall + 1
    /\ dbCalls' = [dbCalls EXCEPT ![c] =
                      [NoDbCall EXCEPT !.op = "getByHash", !.pc = "update",
                                       !.hash = hash, !.now = dbNow]]
    /\ UNCHANGED <<translation_data, dbNow, written, reads>>

\* sqlite3 runs the UPDATE of getTranslation or getByHash; its callback hands
\* over the SELECT.  The field expired is a history value: the row was older than
\* the retention time when the statement ran.
AccessUpdateRun(c) ==
    LET call == dbCalls[c]
    IN  /\ call.pc = "update"
        /\ translation_data' = updateAccessSQL(translation_data, call.hash, call.now)
        /\ reads' = IF RowsOf(translation_data, call.hash) # {}
                    THEN [reads EXCEPT ![call.hash] = @ + 1]
                    ELSE reads
        /\ dbCalls' = [dbCalls EXCEPT
                          ![c].pc = "select", ![c].now = 0,
                          ![c].expired =
                              RowsOf(ExpiredRows(translation_data,
                                                 call.now - RetentionTime), call.hash) # {}]
        /\ UNCHANGED <<dbNow, nextDbCall, written>>

\* sqlite3 runs the SELECT; the call resolves with translated_text (getByHash:
\* with the row, of which the model keeps translated_text and access_count)
SelectRun(c) ==
    LET call == dbCalls[c]
        rows == RowsOf(translation_data, call.hash)
        row == CHOOSE r \in rows : TRUE
    IN  /\ call.pc = "select"
        /\ dbCalls' = [dbCalls EXCEPT ![c] =
                          Resolved(call, IF rows = {} THEN DbNull ELSE row.translated_text,
                                   IF rows = {} THEN 0 ELSE row.access_count)]
        /\ UNCHANGED <<translation_data, dbNow, nextDbCall, written, reads>>

\* cleanupExpiredData(retentionDays) up to db.run; `now` keeps cutoffTime
CleanupExpiredData(c) ==
    /\ c = nextDbCall
    /\ nextDbCall' = nextDbCall + 1
    /\ dbCalls' = [dbCalls EXCEPT ![c] =
                      [NoDbCall EXCEPT !.op = "cleanupExpiredData", !.pc = "run",
                                       !.now = dbNow - RetentionTime]]
    /\ UNCHANGED <<translation_data, dbNow, written, reads>>

\* sqlite3 runs the DELETE; the call resolves with this.changes
CleanupExpiredDataRun(c) ==
    LET call == dbCalls[c]
        kept == cleanupExpiredDataSQL(translation_data, call.now)
        gone == {r.hash : r \in translation_data \ kept}
    IN  /\ call.op = "cleanupExpiredData"
        /\ call.pc = "run"
        /\ translation_data' = kept
        /\ written' = [h \in DbHashes |-> IF h \in gone THEN <<>> ELSE written[h]]
        /\ reads' = [h \in DbHashes |-> IF h \in gone THEN 0 ELSE reads[h]]
        /\ dbCalls' = [dbCalls EXCEPT ![c] =
                          Resolved(call, DbNull, Cardinality(translation_data \ kept))]
        /\ UNCHANGED <<dbNow, nextDbCall>>

\* time passes
DbTick ==
    /\ dbNow < MaxDbClock
    /\ dbNow' = dbNow + 1
    /\ UNCHANGED <<translation_data, dbCalls, nextDbCall, written, reads>>

\* what the database leaves alone
restDB == <<varsTM, varsLC, varsPS, varsHP, varsSQ, varsCM, varsSG, varsCD, varsIO>>

NextDB ==
    \/ \E c \in DbCallIds, x \in DbOriginals :
       \E t \in {TranslationOf(x), Retranslated(x)} :
            SetTranslation(c, x, t) /\ UNCHANGED restDB
    \/ \E c \in DbCallIds : SetTranslationRun(c) /\ UNCHANGED restDB
    \/ \E c \in DbCallIds, x \in DbOriginals : GetTranslation(c, x) /\ UNCHANGED restDB
    \/ \E c \in DbCallIds, h \in DbHashes : GetByHash(c, h) /\ UNCHANGED restDB
    \/ \E c \in DbCallIds : AccessUpdateRun(c) /\ UNCHANGED restDB
    \/ \E c \in DbCallIds : SelectRun(c) /\ UNCHANGED restDB
    \/ \E c \in DbCallIds : CleanupExpiredData(c) /\ UNCHANGED restDB
    \/ \E c \in DbCallIds : CleanupExpiredDataRun(c) /\ UNCHANGED restDB
    \/ DbTick /\ UNCHANGED restDB

(***************************************************************************)
(* TextSegmenter.segmentText (src/utils.ts), a pure function.  A text is   *)
(* the sequence of its lines, text.split('\n'), which is never empty; the  *)
(* content of a segment, lines.join('\n'), is kept as that sequence of     *)
(* lines too (join and split are inverse on non-empty sequences of lines). *)
(* The lines are drawn from an alphabet with one line of each kind the     *)
(* code tells apart.                                                       *)
(***************************************************************************)
\* number of lines of the longest text explored
MaxLines == 4

\* "FENCE" stands for a line of three backticks, "FENCEjs" for three backticks
\* followed by js, "L." stands for a sentence of 200 characters that ends with a full stop,
\* "M" for a line of 200 characters that ends a word
SegLines == {"", " ", "FENCE", "FENCEjs", "a", "L.", "M"}

\* line.trim()
trim(line) == IF line = " " THEN "" ELSE line

\* trimmedLine.startsWith of three backticks
startsWithFence(trimmedLine) == trimmedLine \in {"FENCE", "FENCEjs"}

\* trimmedLine.substring(3).trim()
languageOf(trimmedLine) == IF trimmedLine = "FENCEjs" THEN "js" ELSE ""

\* the test of the line's end against the sentence terminators
endsWithTerminator(trimmedLine) == trimmedLine = "L."

\* line.length
length(line) ==
    CASE line = "" -> 0
      [] line \in {" ", "a"} -> 1
      [] line = "FENCE" -> 3
      [] line = "FENCEjs" -> 5
      [] OTHER -> 200

RECURSIVE joinLength(_)
\* lines.join('\n').length
joinLength(lines) ==
    IF lines = <<>> THEN 0
    ELSE IF Len(lines) = 1 THEN length(lines[1])
    ELSE length(lines[1]) + 1 + joinLength(Tail(lines))

\* lines.join('\n') as the lines of the joined text
join(lines) == IF lines = <<>> THEN <<"">> ELSE lines

NotFence(line) == ~startsWithFence(trim(line))

\* createSegment(lines, type, language)
createSegment(lines, type, language) ==
    [type |-> type,
     content |-> join(IF type = "code" THEN SelectSeq(lines, NotFence) ELSE lines),
     language |-> IF language # "" THEN language
                  ELSE IF type = "code" THEN "unknown" ELSE ""]

HasText(line) == trim(line) # ""

hasContent_Always(segment) == TRUE

\* segment.content.trim() is not the empty string
hasContent(segment) == SelectSeq(segment.content, HasText) # <<>>

\* if (segment.content.trim()) segments.push(segment)
push(segments, segment) == IF hasContent(segment) THEN Append(segments, segment) ELSE segments

\* the locals of segmentText before the loop
SegmenterStart ==
    [segments |-> <<>>, currentSegment |-> <<>>, currentType |-> "text",
     inCodeBlock |-> FALSE, codeLanguage |-> ""]

\* the body of "for (const line of lines)" on a line that starts with a fence
FenceLine(st, trimmedLine) ==
    LET saved == IF Len(st.currentSegment) > 0
                 THEN [st EXCEPT !.segments = push(@, createSegment(st.currentSegment,
                                                                    st.currentType,
                                                                    st.codeLanguage)),
                                 !.currentSegment = <<>>]
                 ELSE st
    IN  IF ~st.inCodeBlock
        THEN [saved EXCEPT !.inCodeBlock = TRUE, !.currentType = "code",
                           !.codeLanguage = languageOf(trimmedLine)]
        ELSE [saved EXCEPT
                !.inCodeBlock = FALSE, !.codeLanguage = "", !.currentType = "text",
                !.currentSegment = <<>>,
                !.segments =
                    IF Len(saved.currentSegment) > 2
                    THEN push(@, createSegment(
                                    SubSeq(saved.currentSegment, 2,
                                           Len(saved.currentSegment) - 1),
                                    "code", ""))
                    ELSE @]

\* a text line that closes the segment on its length alone
TextLine_SplitsAtLength(st, line) ==
    LET cur == st.currentSegment
    IN  IF Len(cur) = 0 THEN [st EXCEPT !.currentSegment = <<line>>]
        ELSE IF joinLength(cur) >= 200
        THEN [st EXCEPT !.segments = push(@, createSegment(cur, st.currentType,
                                                           st.codeLanguage)),
                        !.currentSegment = <<line>>]
        ELSE [st EXCEPT !.currentSegment = Append(cur, line)]

\* the body of the loop on a line outside a code block
TextLine(st, line) ==
    LET cur == st.currentSegment
        isEndOfParagraph == Len(cur) > 0 /\ endsWithTerminator(trim(cur[Len(cur)]))
    IN  IF Len(cur) = 0 THEN [st EXCEPT !.currentSegment = <<line>>]
        ELSE IF joinLength(cur) >= 200 /\ isEndOfParagraph
        THEN [st EXCEPT !.segments = push(@, createSegment(cur, st.currentType,
                                                           st.codeLanguage)),
                        !.currentSegment = <<line>>]
        ELSE [st EXCEPT !.currentSegment = Append(cur, line)]

\* the body of the loop without the branch of the lines inside a code block
SegmenterStep_SplitsCode(st, line) ==
    IF startsWithFence(trim(line)) THEN FenceLine(st, trim(line))
    ELSE TextLine(st, line)

\* the body of the loop
SegmenterStep(st, line) ==
    IF startsWithFence(trim(line)) THEN FenceLine(st, trim(line))
    ELSE IF st.inCodeBlock THEN [st EXCEPT !.currentSegment = Append(@, line)]
    ELSE TextLine(st, line)

\* after the loop: the last segment
SegmenterEnd(st) ==
    IF Len(st.currentSegment) = 0 THEN st.segments
    ELSE IF st.inCodeBlock /\ Len(st.currentSegment) > 1
    THEN push(st.segments, createSegment(Tail(st.currentSegment), "code", st.codeLanguage))
    ELSE push(st.segments, createSegment(st.currentSegment, st.currentType,
                                         st.codeLanguage))

RECURSIVE SegmenterLoop(_, _, _)
SegmenterLoop(lines, i, st) ==
    IF i > Len(lines) THEN st
    ELSE SegmenterLoop(lines, i + 1, SegmenterStep(st, lines[i]))

\* segmentText(text)
segmentText(lines) == SegmenterEnd(SegmenterLoop(lines, 1, SegmenterStart))

\* the texts explored: text.split('\n') has a line at least
SegTexts == UNION {[1..n -> SegLines] : n \in 1..MaxLines}

NoText == <<>>

\* no call of segmentText yet
InitSG ==
    /\ segText = NoText
    /\ segDone = FALSE
    /\ segResult = <<>>

\* a text is given
InitSGText ==
    /\ segText \in SegTexts
    /\ segDone = FALSE
    /\ segResult = <<>>

\* the call segmentText(text)
SegmentText ==
    /\ ~segDone
    /\ segText # NoText
    /\ segDone' = TRUE
    /\ segResult' = segmentText(segText)
    /\ UNCHANGED segText

NextSG ==
    SegmentText /\ UNCHANGED <<varsTM, varsLC, varsPS, varsHP, varsSQ, varsCM, varsDB, varsCD, varsIO>>

(***************************************************************************)
(* The commands retranslate and switchService (commands/index.ts) and the  *)
(* listener of configuration changes, with the hover provider of           *)
(* hover/provider.ts.                                                      *)
(*                                                                         *)
(* A call of switchTranslationService:                                     *)
(*   pc  idle    not running                                               *)
(*       pick    awaiting vscode.window.showQuickPick                      *)
(*       update  awaiting configuration.update                             *)
(***************************************************************************)
\* number of commands the user gives
MaxCommands == 2
\* number of translateWithFactory calls explored
MaxServiceCalls == 3

\* two of the services of TranslationServiceFactory's registry
Services == {"openai", "aliyun"}

NoService == ""

ServiceCallIds == 1..MaxServiceCalls

NoSwitch == [pc |-> "idle", currentService |-> NoService, selectedService |-> NoService]

NoRetranslate == [stage |-> "none", hash |-> <<>>, call |-> 0, submitted |-> 0]

InitCD ==
    /\ serviceProvider = "openai"
    /\ switchCall = NoSwitch
    /\ configEvent = NoService
    /\ serviceCalls = {}
    /\ nextServiceCall = 1
    /\ commands = 0
    /\ producedBy = [h \in ParagraphHashes |-> NoService]
    /\ oldProvider = NoService
    /\ translatingAtSwitch = {}
    /\ retranslated = NoRetranslate

\* what the commands and the provider leave alone
restCD == <<varsDB, varsSG, varsIO, varsTM, varsLC, varsSQ, varsLF, globalState, savedBefore>>

\* the editor asks for the hover at the pointer
HostProvideHoverCD(c, text) ==
    /\ HostProvideHover(c, text)
    /\ UNCHANGED <<varsCD, saveTimeout, restCD>>

\* the timer of triggerHoverRefresh; the refresh that follows a retranslate command
\* is the one the command asked for
HoverRefreshFiresCD(c) ==
    /\ HoverRefreshFires(c)
    /\ retranslated' =
          IF retranslated.stage # "scheduled" THEN retranslated
          ELSE IF lastHoverText = "" THEN [retranslated EXCEPT !.stage = "served"]
          ELSE [retranslated EXCEPT
                    !.stage = IF isInsideHover THEN "served" ELSE "refreshing",
                    !.call = c]
    /\ UNCHANGED <<serviceProvider, switchCall, configEvent, serviceCalls, nextServiceCall,
                   commands, producedBy, oldProvider, translatingAtSwitch, saveTimeout,
                   restCD>>

\* provideHover after its await; startBackgroundTranslation, when it passes its
\* guard, calls translateWithFactory, which reads config.serviceProvider at once
ProvideHoverReturnCD(c, outcome) ==
    LET hash == md5(provideCalls[c].text)
        started == translating' # translating
        counted == /\ started
                   /\ retranslated.stage \in {"scheduled", "refreshing"}
                   /\ retranslated.hash = hash
        asked == retranslated.stage = "refreshing" /\ retranslated.call = c
    IN  /\ nextServiceCall <= MaxServiceCalls
        /\ ExecuteHoverProviderReturn(c, outcome)
        /\ serviceCalls' =
              IF started
              THEN serviceCalls \cup {[id |-> nextServiceCall, hash |-> hash,
                                       provider |-> serviceProvider]}
              ELSE serviceCalls
        /\ nextServiceCall' = IF started THEN nextServiceCall + 1 ELSE nextServiceCall
        /\ retranslated' = [retranslated EXCEPT
                                !.submitted = IF counted THEN @ + 1 ELSE @,
                                !.stage = IF asked THEN "served" ELSE @]
        /\ UNCHANGED <<serviceProvider, switchCall, configEvent, commands, producedBy,
                       oldProvider, translatingAtSwitch, saveTimeout, restCD>>

\* startBackgroundTranslation: translateWithFactory settles (.then / .catch)
TranslateWithFactoryReturn(id, ok) ==
    LET call == CHOOSE k \in serviceCalls : k.id = id
        hash == call.hash
    IN  /\ \E k \in serviceCalls : k.id = id
        /\ serviceCalls' = serviceCalls \ {call}
        /\ backendCalls' = {k.hash : k \in serviceCalls'}
        /\ translating' = translating \ {hash}
        /\ translationCache' =
              setCachedTranslation(hash,
                                   IF ok THEN TranslationOf(hash[2]) ELSE ErrorTextOf(hash[2]),
                                   translationCache)
        /\ producedBy' = [producedBy EXCEPT ![hash] = IF ok THEN call.provider ELSE NoService]
        /\ saveTimeout' = saveCacheDebounced(saveTimeout)
        /\ refreshPending' = TRUE
        /\ UNCHANGED <<isInsideHover, showTranslated, provideCalls, nextProvide,
                       lastHoverText, toggles, serviceProvider, switchCall, configEvent,
                       nextServiceCall, commands, oldProvider, translatingAtSwitch,
                       retranslated, restCD>>

\* the command retranslate(encodedText)
Retranslate(text) ==
    LET hash == md5(text)
    IN  /\ commands < MaxCommands
        /\ commands' = commands + 1
        /\ translationCache' = [translationCache EXCEPT ![hash] = NoEntry]
        /\ translating' = translating \ {hash}
        /\ refreshPending' = TRUE
        /\ producedBy' = [producedBy EXCEPT ![hash] = NoService]
        /\ retranslated' = [stage |-> "scheduled", hash |-> hash, call |-> 0, submitted |-> 0]
        /\ UNCHANGED <<isInsideHover, showTranslated, provideCalls, nextProvide,
                       backendCalls, lastHoverText, toggles, serviceProvider, switchCall,
                       configEvent, serviceCalls, nextServiceCall, oldProvider,
                       translatingAtSwitch, saveTimeout, restCD>>

\* switchTranslationService up to "await vscode.window.showQuickPick"
SwitchTranslationService ==
    /\ commands < MaxCommands
    /\ switchCall.pc = "idle"
    /\ commands' = commands + 1
    /\ switchCall' = [pc |-> "pick", currentService |-> serviceProvider,
                      selectedService |-> NoService]
    /\ UNCHANGED <<varsPS, varsHP, serviceProvider, configEvent, serviceCalls,
                   nextServiceCall, producedBy, oldProvider, translatingAtSwitch,
                   retranslated, saveTimeout, restCD>>

\* switchTranslationService from the choice of the user (NoService: none) up to
\* "await configuration.update", which lets the editor tell the listeners
ShowQuickPickReturn(selectedService) ==
    /\ switchCall.pc = "pick"
    /\ IF selectedService # NoService /\ selectedService # switchCall.currentService
       THEN /\ switchCall' = [switchCall EXCEPT !.pc = "update",
                                                !.selectedService = selectedService]
            /\ configEvent' = selectedService
       ELSE /\ switchCall' = NoSwitch
            /\ UNCHANGED configEvent
    /\ UNCHANGED <<varsPS, varsHP, serviceProvider, serviceCalls, nextServiceCall, commands,
                   producedBy, oldProvider, translatingAtSwitch, retranslated, saveTimeout,
                   restCD>>

\* handleConfigChange on a change of serviceProvider, with
\* handleServiceProviderChange
HandleConfigChange ==
    /\ configEvent # NoService
    /\ configEvent' = NoService
    /\ serviceProvider' = configEvent
    /\ translating' = {}
    /\ refreshPending' = TRUE
    /\ UNCHANGED <<translationCache, isInsideHover, showTranslated, provideCalls,
                   nextProvide, backendCalls, lastHoverText, toggles, switchCall,
                   serviceCalls, nextServiceCall, commands, producedBy, oldProvider,
                   translatingAtSwitch, retranslated, saveTimeout, restCD>>

\* switchTranslationService after "await configuration.update": the switch is
\* complete when it returns
ConfigurationUpdateReturn ==
    /\ switchCall.pc = "update"
    /\ switchCall' = NoSwitch
    /\ serviceProvider' = switchCall.selectedService
    /\ translationCache' = [h \in ParagraphHashes |-> NoEntry]
    /\ translating' = {}
    /\ refreshPending' = TRUE
    /\ producedBy' = [h \in ParagraphHashes |-> NoService]
    /\ oldProvider' = switchCall.currentService
    /\ translatingAtSwitch' = translating'
    /\ UNCHANGED <<isInsideHover, showTranslated, provideCalls, nextProvide, backendCalls,
                   lastHoverText, toggles, configEvent, serviceCalls, nextServiceCall,
                   commands, retranslated, saveTimeout, restCD>>

NextCD ==
    \/ \E c \in ProvideIds, x \in ParagraphTexts : HostProvideHoverCD(c, x)
    \/ \E c \in ProvideIds : HoverRefreshFiresCD(c)
    \/ \E c \in ProvideIds, outcome \in {"none", "throw", "text"} :
            ProvideHoverReturnCD(c, outcome)
    \/ \E id \in ServiceCallIds, ok \in BOOLEAN : TranslateWithFactoryReturn(id, ok)
    \/ \E x \in ParagraphTexts : Retranslate(x)
    \/ SwitchTranslationService
    \/ \E s \in Services \cup {NoService} : ShowQuickPickReturn(s)
    \/ HandleConfigChange
    \/ ConfigurationUpdateReturn

\* handleCredentialChange(pluginContext): state.translationCache.clear()
HandleCredentialChange ==
    /\ commands < MaxCommands
    /\ commands' = commands + 1
    /\ translationCache' = [h \in ParagraphHashes |-> NoEntry]
    /\ producedBy' = [h \in ParagraphHashes |-> NoService]
    /\ UNCHANGED <<translating, varsHP, serviceProvider, switchCall, configEvent,
                   serviceCalls, nextServiceCall, oldProvider, translatingAtSwitch,
                   retranslated, saveTimeout, restCD>>

\* the hover provider, the commands and the listener of configuration changes
\* with the timer of saveCacheDebounced, while the extension is active
NextCS ==
    \/ NextCD
    \/ HandleCredentialChange
    \/ SaveTimerFires /\ UNCHANGED <<varsXT, varsTM, varsLC, varsHP, varsSQ>>

(***************************************************************************)
(* BaseTranslationService.httpRequest                                      *)
(*                                                                         *)
(* The clock counts units of 10 s.  A call:                                *)
(*   pc  none       not made yet                                           *)
(*       fetch      awaiting fetch(url, {signal})                          *)
(*       json       awaiting response.json() of a response that is ok      *)
(*       errorJson  awaiting response.json() of a response that is not ok  *)
(*                  (the variant that reads the error body)                *)
(*       errorText  awaiting response.text() after that json() failed      *)
(*       settled    returned or thrown: outcome                            *)
(***************************************************************************)
\* number of httpRequest calls explored
MaxRequests == 2
\* the last instant explored
MaxHttpClock == 4

\* 30000 ms
DefaultTimeout == 3

\* the values of config.timeout explored; 0 stands for a timeout left unset
ConfigTimeouts == {0, 1, 2}

RequestIds == 1..MaxRequests

NoRequest == [pc |-> "none", start |-> 0, timeout |-> 0, timeoutId |-> FALSE,
              aborted |-> FALSE, outcome |-> "", settledAt |-> 0]

InitHROn(variants) ==
    /\ httpNow = 0
    /\ requests = [c \in RequestIds |-> NoRequest]
    /\ nextRequest = 1
    /\ readsErrorBody \in variants

InitHR == InitHROn({FALSE})

\* httpRequest of basetranslationservice.ts and of its variant that reads the
\* body of an error response
InitHRBoth == InitHROn(BOOLEAN)

\* the call returns or throws; the finally block clears the timer
Settle(c, outcome) ==
    requests' = [requests EXCEPT ![c] =
        [@ EXCEPT !.pc = "settled", !.outcome = outcome, !.settledAt = httpNow,
                  !.timeoutId = FALSE]]

\* httpRequest up to "await fetch"
HttpRequest(c, configTimeout) ==
    /\ c = nextRequest
    /\ nextRequest' = nextRequest + 1
    /\ requests' = [requests EXCEPT ![c] =
          [NoRequest EXCEPT !.pc = "fetch", !.start = httpNow,
                            !.timeout = IF configTimeout # 0 THEN configTimeout
                                        ELSE DefaultTimeout,
                            !.timeoutId = TRUE]]
    /\ UNCHANGED <<httpNow, readsErrorBody>>

\* the callback of the timer: controller.abort()
TimeoutFires(c) ==
    /\ requests[c].timeoutId
    /\ httpNow >= requests[c].start + requests[c].timeout
    /\ requests' = [requests EXCEPT ![c] = [@ EXCEPT !.timeoutId = FALSE, !.aborted = TRUE]]
    /\ UNCHANGED <<httpNow, nextRequest, readsErrorBody>>

\* a fetch that stops its timer as soon as the response's head has arrived
FetchReturn_ClearsTimeout(c, result) ==
    /\ requests[c].pc = "fetch"
    /\ ~requests[c].aborted
    /\ result = "ok"
    /\ requests' = [requests EXCEPT ![c] = [@ EXCEPT !.pc = "json", !.timeoutId = FALSE]]
    /\ UNCHANGED <<httpNow, nextRequest, readsErrorBody>>

\* fetch settles before the signal aborts it: a response that is ok or not, or
\* a failure of the network
FetchReturn(c, result) ==
    /\ requests[c].pc = "fetch"
    /\ ~requests[c].aborted
    /\ CASE result = "ok" ->
                requests' = [requests EXCEPT ![c] = [@ EXCEPT !.pc = "json"]]
         [] result = "notOk" /\ readsErrorBody ->
                requests' = [requests EXCEPT ![c] = [@ EXCEPT !.pc = "errorJson"]]
         [] result = "notOk" /\ ~readsErrorBody -> Settle(c, "httpError")
         [] OTHER -> Settle(c, "networkError")
    /\ UNCHANGED <<httpNow, nextRequest, readsErrorBody>>

\* response.json() of a response that is ok settles before the signal aborts it
JsonReturn(c, ok) ==
    /\ requests[c].pc = "json"
    /\ ~requests[c].aborted
    /\ Settle(c, IF ok THEN "ok" ELSE "parseError")
    /\ UNCHANGED <<httpNow, nextRequest, readsErrorBody>>

\* response.json() of a response that is not ok settles before the signal
\* aborts it
ErrorJsonReturn(c, ok) ==
    /\ requests[c].pc = "errorJson"
    /\ ~requests[c].aborted
    /\ IF ok THEN Settle(c, "httpError")
       ELSE requests' = [requests EXCEPT ![c] = [@ EXCEPT !.pc = "errorText"]]
    /\ UNCHANGED <<httpNow, nextRequest, readsErrorBody>>

\* response.text().catch(() => '') settles before the signal aborts it
ErrorTextReturn(c) ==
    /\ requests[c].pc = "errorText"
    /\ ~requests[c].aborted
    /\ Settle(c, "httpError")
    /\ UNCHANGED <<httpNow, nextRequest, readsErrorBody>>

\* the aborted signal rejects what the call awaits: fetch and json() of a
\* response that is ok with an AbortError, which the catch block turns into the
\* timeout error; the reads of an error body inside their own try and catch,
\* after which the HTTP error is thrown
AbortRejects(c) ==
    /\ requests[c].aborted
    /\ requests[c].pc \in {"fetch", "json", "errorJson", "errorText"}
    /\ Settle(c, IF requests[c].pc \in {"fetch", "json"} THEN "timeout" ELSE "httpError")
    /\ UNCHANGED <<httpNow, nextRequest, readsErrorBody>>

\* a timer that is due, or a rejection that is due, runs before time passes
Urgent(c) ==
    \/ requests[c].timeoutId /\ httpNow >= requests[c].start + requests[c].timeout
    \/ requests[c].aborted /\ requests[c].pc # "settled"

\* 10 s pass
HttpTick ==
    /\ httpNow < MaxHttpClock
    /\ \A c \in RequestIds : ~Urgent(c)
    /\ httpNow' = httpNow + 1
    /\ UNCHANGED <<requests, nextRequest, readsErrorBody>>

restHR == <<varsTM, varsLC, varsPS, varsHP, varsSQ, varsCM, varsDB, varsSG, varsCD, varsDM,
            varsCF>>

NextHR ==
    \/ \E c \in RequestIds, t \in ConfigTimeouts : HttpRequest(c, t) /\ UNCHANGED restHR
    \/ \E c \in RequestIds : TimeoutFires(c) /\ UNCHANGED restHR
    \/ \E c \in RequestIds, result \in {"ok", "notOk", "networkError"} :
            FetchReturn(c, result) /\ UNCHANGED restHR
    \/ \E c \in RequestIds, ok \in BOOLEAN : JsonReturn(c, ok) /\ UNCHANGED restHR
    \/ \E c \in RequestIds, ok \in BOOLEAN : ErrorJsonReturn(c, ok) /\ UNCHANGED restHR
    \/ \E c \in RequestIds : ErrorTextReturn(c) /\ UNCHANGED restHR
    \/ \E c \in RequestIds : AbortRejects(c) /\ UNCHANGED restHR
    \/ HttpTick /\ UNCHANGED restHR

(***************************************************************************)
(* TranslationDataManager.getTranslationsBatch (data/data.ts), beside      *)
(* setTranslation and getTranslation, whose statements are those of        *)
(* TranslationDatabase                                                     *)
(***************************************************************************)
\* number of getTranslationsBatch calls explored
MaxBatchCalls == 2

BatchCallIds == 1..MaxBatchCalls

\* the empty string as a translated text
EmptyTranslation == <<"">>

\* the arrays of originals the explored calls ask for
BatchTexts == {<<>>, <<"alpha", StoredOriginal>>, <<"gamma", "alpha">>}

NoBatchCall == [pc |-> "none", texts |-> <<>>, now |-> 0, result |-> {}]

InitDM ==
    /\ batchCalls = [b \in BatchCallIds |-> NoBatchCall]
    /\ nextBatchCall = 1

\* originalTexts.map(text => this.generateHash(text))
hashesOf(texts) == {generateHash(texts[i]) : i \in 1..Len(texts)}

\* UPDATE translation_data SET last_access_time = ?, access_count = access_count + 1
\* WHERE hash IN (...)
updateAccessBatchSQL(table, hashes, now) ==
    {IF r.hash \in hashes
     THEN [r EXCEPT !.last_access_time = now, !.access_count = r.access_count + 1]
     ELSE r : r \in table}

\* if (translated)
Truthy(translated) == translated # EmptyTranslation

\* the Map the callback of db.all builds from the rows: an entry for every text
\* whose hash has a row with a translated text that passes the test
resultsOf(texts, rows) ==
    UNION {{<<texts[i], r.translated_text>> :
                r \in {row \in rows : /\ row.hash = generateHash(texts[i])
                                        /\ Truthy(row.translated_text)}} :
           i \in 1..Len(texts)}

\* getTranslationsBatch(originalTexts) up to the db.run of its UPDATE
GetTranslationsBatch(b, texts) ==
    /\ b = nextBatchCall
    /\ nextBatchCall' = nextBatchCall + 1
    /\ batchCalls' = [batchCalls EXCEPT ![b] =
                         [NoBatchCall EXCEPT !.pc = "update", !.texts = texts, !.now = dbNow]]
    /\ UNCHANGED varsDB

\* sqlite3 runs the UPDATE of getTranslationsBatch
BatchUpdateRun(b) ==
    LET call == batchCalls[b]
        hashes == hashesOf(call.texts)
    IN  /\ call.pc = "update"
        /\ translation_data' = updateAccessBatchSQL(translation_data, hashes, call.now)
        /\ reads' = [h \in DbHashes |->
                        IF h \in hashes /\ RowsOf(translation_data, h) # {}
                        THEN reads[h] + 1 ELSE reads[h]]
        /\ batchCalls' = [batchCalls EXCEPT ![b].pc = "select", ![b].now = 0]
        /\ UNCHANGED <<dbNow, dbCalls, nextDbCall, written, nextBatchCall>>

\* sqlite3 runs the SELECT ... WHERE hash IN (...); the call resolves with the Map
BatchSelectRun(b) ==
    LET call == batchCalls[b]
        rows == {r \in translation_data : r.hash \in hashesOf(call.texts)}
    IN  /\ call.pc = "select"
        /\ batchCalls' = [batchCalls EXCEPT ![b].pc = "done",
                                            ![b].result = resultsOf(call.texts, rows)]
        /\ UNCHANGED <<varsDB, nextBatchCall>>

\* what the data manager leaves alone
restDM == <<varsTM, varsLC, varsPS, varsHP, varsSQ, varsCM, varsSG, varsCD, varsHR, varsCF>>

NextDM ==
    \/ \E c \in DbCallIds, x \in DbOriginals :
       \E t \in {TranslationOf(x), EmptyTranslation} :
            SetTranslation(c, x, t) /\ UNCHANGED restDB
    \/ \E c \in DbCallIds : SetTranslationRun(c) /\ UNCHANGED restDB
    \/ \E c \in DbCallIds, x \in DbOriginals : GetTranslation(c, x) /\ UNCHANGED restDB
    \/ \E c \in DbCallIds : AccessUpdateRun(c) /\ UNCHANGED restDB
    \/ \E c \in DbCallIds : SelectRun(c) /\ UNCHANGED restDB
    \/ \E b \in BatchCallIds, texts \in BatchTexts :
            GetTranslationsBatch(b, texts) /\ UNCHANGED restDM
    \/ \E b \in BatchCallIds : BatchUpdateRun(b) /\ UNCHANGED restDM
    \/ \E b \in BatchCallIds : BatchSelectRun(b) /\ UNCHANGED restDM

(***************************************************************************)
(* ConfigDatabase (data/config.ts): the table service_config               *)
(***************************************************************************)
\* number of ConfigDatabase calls explored
MaxConfigCalls == 2

\* largest value of Date.now() explored
MaxConfigClock == 1

ConfigCallIds == 1..MaxConfigCalls

\* the values of service_provider explored
Providers == {"openai", "aliyun", "baidu"}

\* the values of config.model explored
Models == {"gpt-4"}

\* config.secretKey: undefined, or a key
Undefined == <<>>

SecretKeys == {Undefined, <<"secret">>}

\* what db.get hands the callback when no row matches; the null it resolves with
NoConfig == <<>>

NoConfigCall == [op |-> "none", pc |-> "none", provider |-> "",
                 params |-> <<>>, result |-> <<>>]

\* a table an earlier session left
StoredConfigs ==
    {[service_provider |-> p, secret_key |-> <<"">>, model |-> "gpt-4", timeout |-> 0] :
        p \in {"openai", "baidu"}}

InitCFOn(ready, tables) ==
    /\ isInitialized \in ready
    /\ service_config \in tables
    /\ configNow = 0
    /\ configCalls = [c \in ConfigCallIds |-> NoConfigCall]
    /\ nextConfigCall = 1

\* new ConfigDatabase(databaseManager) with a database manager that is ready
InitCF == InitCFOn({TRUE}, {{}})

\* new ConfigDatabase(databaseManager), the database manager ready or not
InitCFAny == InitCFOn(BOOLEAN, {{}, StoredConfigs})

\* config.secretKey || ''
OrEmpty(secretKey) == IF secretKey = Undefined THEN <<"">> ELSE secretKey

\* INSERT OR REPLACE INTO service_config (service_provider, ..., timeout) VALUES (...)
insertOrReplaceSQL(table, row) ==
    {r \in table : r.service_provider # row.service_provider} \cup {row}

\* DELETE FROM service_config
deleteServiceConfigSQL_All(table, provider) == {}

\* DELETE FROM service_config WHERE service_provider = ?
deleteServiceConfigSQL(table, provider) ==
    {r \in table : r.service_provider # provider}

\* SELECT ... FROM service_config WHERE service_provider = ?
selectServiceConfigSQL(table, provider) ==
    {r \in table : r.service_provider = provider}

\* the TranslationConfig getServiceConfig builds from a row
configOf(row) ==
    [serviceProvider |-> row.service_provider, secretKey |-> row.secret_key,
     model |-> row.model, timeout |-> row.timeout]

\* the TranslationConfig getAllServiceConfigs builds from a row
configOfAll(row) ==
    [serviceProvider |-> row.service_provider, secretKey |-> row.secret_key,
     model |-> row.model, updatedAt |-> row.timeout]

\* a call of a method of ConfigDatabase up to its db.run, db.get or db.all;
\* it throws when the database was not ready at construction
ConfigCall(c, op, provider, params) ==
    /\ c = nextConfigCall
    /\ nextConfigCall' = nextConfigCall + 1
    /\ configCalls' = [configCalls EXCEPT ![c] =
           [NoConfigCall EXCEPT !.op = op,
                                !.pc = IF isInitialized THEN "queued" ELSE "rejected",
                                !.provider = provider,
                                !.params = params]]
    /\ UNCHANGED <<isInitialized, service_config, configNow>>

\* setServiceConfig(config) up to db.run
SetServiceConfig(c, provider, secretKey, model) ==
    ConfigCall(c, "set", provider,
               <<[service_provider |-> provider, secret_key |-> OrEmpty(secretKey),
                  model |-> model, timeout |-> configNow]>>)

\* getServiceConfig(provider) up to db.get
GetServiceConfig(c, provider) == ConfigCall(c, "get", provider, <<>>)

\* getAllServiceConfigs() up to db.all
GetAllServiceConfigs(c) == ConfigCall(c, "all", "", <<>>)

\* deleteServiceConfig(provider) up to db.run
DeleteServiceConfig(c, provider) == ConfigCall(c, "delete", provider, <<>>)

\* sqlite3 runs the statement of a call and the callback settles the promise:
\* with err the call rejects and the table is as it was
StatementRun(c, err) ==
    LET call == configCalls[c]
        rows == selectServiceConfigSQL(service_config, call.provider)
    IN  /\ call.pc = "queued"
        /\ service_config' =
              IF err THEN service_config
              ELSE IF call.op = "set" THEN insertOrReplaceSQL(service_config, call.params[1])
              ELSE IF call.op = "delete"
                   THEN deleteServiceConfigSQL(service_config, call.provider)
              ELSE service_config
        /\ configCalls' = [configCalls EXCEPT
              ![c].pc = IF err THEN "rejected" ELSE "resolved",
              ![c].result =
                  IF err THEN <<>>
                  ELSE IF call.op = "get"
                       THEN IF rows = {} THEN NoConfig
                            ELSE <<configOf(CHOOSE r \in rows : TRUE)>>
                  ELSE IF call.op = "all" THEN <<{configOfAll(r) : r \in service_config}>>
                  ELSE <<>>]
        /\ UNCHANGED <<isInitialized, configNow, nextConfigCall>>

\* Date.now() moves on
ConfigTick ==
    /\ configNow < MaxConfigClock
    /\ configNow' = configNow + 1
    /\ UNCHANGED <<isInitialized, service_config, configCalls, nextConfigCall>>

\* what the configuration database leaves alone
restCF == <<varsTM, varsLC, varsPS, varsHP, varsSQ, varsCM, varsDB, varsSG, varsCD,
            varsHR, varsDM>>

NextCF ==
    \/ \E c \in ConfigCallIds, p \in Providers, k \in SecretKeys, mdl \in Models :
            SetServiceConfig(c, p, k, mdl) /\ UNCHANGED restCF
    \/ \E c \in ConfigCallIds, p \in Providers : GetServiceConfig(c, p) /\ UNCHANGED restCF
    \/ \E c \in ConfigCallIds : GetAllServiceConfigs(c) /\ UNCHANGED restCF
    \/ \E c \in ConfigCallIds, p \in Providers : DeleteServiceConfig(c, p) /\ UNCHANGED restCF
    \/ \E c \in ConfigCallIds, err \in BOOLEAN : StatementRun(c, err) /\ UNCHANGED restCF
    \/ ConfigTick /\ UNCHANGED restCF

\* the hover pipeline
InitPipeline == InitTM /\ InitLC /\ InitPS /\ InitHP /\ InitSQ /\ InitCM /\ InitCD

\* the services specified on their own
InitIO == InitHR /\ InitDM /\ InitCF

Init == InitPipeline /\ InitDB /\ InitSG /\ InitIO

\* the task manager reads none of the controller's settings
InitSpec == Init /\ isEnabled /\ ~useWebviewPanel

Spec == InitSpec /\ [][NextTM]_vars

\* the task manager given one batch again and again while that batch is pending
GateBatch == <<NewTranslationData("alpha", "text")>>

\* a 100 ms timer fires: the head of the timers
TimerFires == \E t \in TaskIds : ExecuteTask(t) \/ GateWake(t)

NextGate ==
    \/ /\ nextTask <= GateTasks
       /\ HashesOf(GateBatch) \subseteq pendingHashes
       /\ CreateTranslationTask(GateBatch)
       /\ UNCHANGED <<varsLC, varsPS, varsHP, varsSQ, varsCM, varsXT>>
    \/ \E t \in TaskIds : ExecuteTask(t) /\ UNCHANGED <<varsLC, varsPS, varsHP, varsSQ, varsCM, varsXT>>
    \/ \E t \in TaskIds : GateWake(t) /\ UNCHANGED <<varsLC, varsPS, varsHP, varsSQ, varsCM, varsXT>>
    \/ \E t \in TaskIds, ok \in BOOLEAN : BackendReturn(t, ok) /\ UNCHANGED <<varsLC, varsPS, varsHP, varsSQ, varsCM, varsXT>>
    \/ \E t \in TaskIds : DatabaseReturn(t) /\ UNCHANGED <<varsLC, varsPS, varsHP, varsSQ, varsCM, varsXT>>

\* timers fire, and every backend call and every setTranslation returns
FairnessGate ==
    /\ WF_timers(TimerFires)
    /\ \A t \in TaskIds : WF_<<tasks[t].pc, tasks[t].idx>>(\E ok \in BOOLEAN : BackendReturn(t, ok))
    /\ \A t \in TaskIds : WF_<<tasks[t].pc, tasks[t].idx>>(DatabaseReturn(t))

\* the batch has been submitted maxConcurrency times and each of these tasks has
\* passed the concurrency loop and awaits the backend
GateFull ==
    LET running == 1..maxConcurrency
        first == [NoTask EXCEPT !.batch = GateBatch, !.pc = "call", !.idx = 1,
                                !.called = {1}, !.hasNew = TRUE]
        again == [first EXCEPT !.dup = {1}, !.hasNew = FALSE]
    IN  /\ tasks = [t \in TaskIds |->
                       IF t = 1 THEN first ELSE IF t \in running THEN again ELSE NoTask]
        /\ nextTask = maxConcurrency + 1
        /\ timers = <<>>
        /\ pendingTasks = {}
        /\ runningTasks = running
        /\ activeTranslations = running
        /\ pendingHashes = HashesOf(GateBatch)
        /\ database = [h \in Hashes |-> NoRow]

InitSpecGate ==
    /\ GateFull
    /\ InitLC /\ InitPS /\ InitHP /\ InitSQ /\ InitCM /\ InitCD
    /\ InitDB /\ InitSG /\ InitIO
    /\ isEnabled /\ ~useWebviewPanel

SpecGate == InitSpecGate /\ [][NextGate]_vars

SpecGateFair == SpecGate /\ FairnessGate

SpecLC == Init /\ [][NextLC]_vars

\* handleHover calls alone, MaxReentryCalls of them; the tasks they submit wait
\* for their timers, which have no part in the guard
NextRE ==
    \/ \E h \in HoverIds, pos \in Positions : nextHover <= MaxReentryCalls /\ HandleHover(h, pos) /\ UNCHANGED <<varsTM, varsPS, varsHP, varsSQ, varsCM, varsXT>>
    \/ ThresholdElapses /\ UNCHANGED <<varsTM, varsPS, varsHP, varsSQ, varsCM, varsXT>>
    \/ \E h \in HoverIds : ExtractReturn(h) /\ UNCHANGED <<varsTM, varsPS, varsHP, varsSQ, varsCM, varsXT>>
    \/ \E h \in HoverIds : GetByHashReturn(h) /\ UNCHANGED <<varsTM, varsPS, varsHP, varsSQ, varsCM, varsXT>>
    \/ \E h \in HoverIds : HandleHoverDisplay(h) /\ UNCHANGED <<varsPS, varsHP, varsSQ, varsCM, varsXT>>
    \/ \E h \in HoverIds : HandleWebviewDisplay(h) /\ UNCHANGED <<varsPS, varsHP, varsSQ, varsCM, varsXT>>

SpecRE == Init /\ [][NextRE]_vars

SpecLCFair == SpecLC /\ FairnessLC

\* the hover provider reads none of the controller's settings
InitSpecHP == Init /\ isEnabled /\ ~useWebviewPanel

SpecHP == InitSpecHP /\ [][NextHP]_vars

\* the renderer reads the setting "enabled" only
InitSpecSQ == Init /\ ~useWebviewPanel

SpecSQ == InitSpecSQ /\ [][NextSQ]_vars

\* the serial queue and triggerHoverRefresh without the commands
NextRF ==
    \/ \E d \in Documents : UserHover(d) /\ UNCHANGED <<varsXT, varsTM, varsLC, varsHP, varsCM>>
    \/ Tick /\ UNCHANGED <<varsXT, varsTM, varsLC, varsHP, varsCM>>
    \/ \E ok \in BOOLEAN : TranslateSingleParagraphReturn(ok) /\ UNCHANGED <<varsXT, varsTM, varsLC, varsHP, varsLF>>
    \/ QueueDelayFires /\ UNCHANGED <<varsXT, varsTM, varsLC, varsHP, varsCM>>
    \/ RefreshTimerFires /\ UNCHANGED <<varsXT, varsTM, varsLC, varsHP, varsCM>>
    \/ \E ok \in BOOLEAN : ShowHoverReturn(ok) /\ UNCHANGED <<varsXT, varsTM, varsLC, varsHP, varsCM>>
    \/ CooldownTimerFires /\ UNCHANGED <<varsXT, varsTM, varsLC, varsHP, varsCM>>
    \/ ResetTimerFires /\ UNCHANGED <<varsXT, varsTM, varsLC, varsHP, varsCM>>

InitSpecRF == Init /\ isEnabled /\ ~useWebviewPanel

SpecRF == InitSpecRF /\ [][NextRF]_vars

\* time passes and the event loop runs the callback of every timer that is due
FairnessRF ==
    /\ WF_clockTimers(Tick)
    /\ WF_clockTimers(QueueDelayFires)
    /\ WF_clockTimers(RefreshTimerFires)
    /\ WF_clockTimers(CooldownTimerFires)
    /\ WF_clockTimers(ResetTimerFires)

SpecRFFair == SpecRF /\ FairnessRF

\* every backend call returns, with a translation or with an error
FairnessBackend ==
    WF_<<queuePc, pendingParagraphs>>(\E ok \in BOOLEAN : TranslateSingleParagraphReturn(ok))

SpecRFLive == SpecRF /\ FairnessRF /\ FairnessBackend

\* the cache module and the life cycle
InitSpecCM == Init /\ isEnabled /\ ~useWebviewPanel

SpecCM == InitSpecCM /\ [][NextCM]_vars

\* the translation database
InitSpecDB == InitPipeline /\ isEnabled /\ ~useWebviewPanel /\ InitDBStored /\ InitSG /\ InitIO

SpecDB == InitSpecDB /\ [][NextDB]_vars

\* the segmenter on every text of SegTexts
InitSpecSG == InitPipeline /\ isEnabled /\ ~useWebviewPanel /\ InitDB /\ InitSGText /\ InitIO

SpecSG == InitSpecSG /\ [][NextSG]_vars

\* the commands on the hover provider
InitSpecCD == Init /\ isEnabled /\ ~useWebviewPanel

SpecCD == InitSpecCD /\ [][NextCD]_vars

\* the cache and its durable copy while the extension is active; a timer that
\* is pending fires
InitSpecCS == Init /\ isEnabled /\ ~useWebviewPanel

FairnessCS == WF_saveTimeout(SaveTimerFires)

SpecCSFair == InitSpecCS /\ [][NextCS]_vars /\ FairnessCS

\* httpRequest
InitSpecHR == InitPipeline /\ isEnabled /\ ~useWebviewPanel /\ InitDB /\ InitSG /\ InitHRBoth /\ InitDM
                 /\ InitCF

SpecHR == InitSpecHR /\ [][NextHR]_vars

\* the data manager
InitSpecDM == InitSpecDB

SpecDM == InitSpecDM /\ [][NextDM]_vars

\* the configuration database on its own
InitSpecCF == InitPipeline /\ isEnabled /\ ~useWebviewPanel /\ InitDB /\ InitSG /\ InitHR /\ InitDM
                 /\ InitCFAny

SpecCF == InitSpecCF /\ [][NextCF]_vars

(***************************************************************************)
(* Claims about TranslationTaskManager, checked under Spec; C9, which holds *)
(* there too, is checked on the runs handleHover drives (SpecLC).           *)
(***************************************************************************)
Awaiting(t) == tasks[t].pc = "call"
CurrentHash(t) == tasks[t].batch[tasks[t].idx].hash

\* C1: a hash submitted twice before its first translation has settled is sent to
\* the backend once. Two tasks that were never aborted and await the backend for the
\* same hash at the same time are two such calls: the later submission was made
\* while the earlier one's translation of that hash had not settled.
C1_OneBackendCallPerInFlightHash ==
    \A t1 \in TaskIds, t2 \in TaskIds :
        (t1 # t2 /\ Awaiting(t1) /\ Awaiting(t2)
            /\ ~tasks[t1].aborted /\ ~tasks[t2].aborted)
        => CurrentHash(t1) # CurrentHash(t2)

\* C2: once a batch is superseded by the submission of a batch with disjoint hashes,
\* its hashes are out of pendingHashes at that moment, and neither a partial-completion
\* nor a batch-completion event is fired for it from then on.
C2_SupersededBatchIsSilent ==
    [][\A t \in TaskIds :
        /\ (tasks[t].abortedBy # "disjoint" /\ tasks'[t].abortedBy = "disjoint")
            => HashesOf(tasks[t].batch) \cap pendingHashes' = {}
        /\ tasks[t].abortedBy = "disjoint"
            => /\ tasks'[t].partial = tasks[t].partial
               /\ tasks'[t].complete = tasks[t].complete]_vars

\* the segments of a batch that need the backend
NeedsBackend(batch) ==
    {i \in 1..Len(batch) : batch[i].translatedText = "" /\ batch[i].type # "code"}

\* C3: a backend error on one segment does not abort its siblings: when a batch that
\* was never cancelled has ended, every segment of it that needs the backend has had
\* its backend call.
C3_ErrorDoesNotAbortSiblings ==
    \A t \in TaskIds :
        (tasks[t].pc = "done" /\ ~tasks[t].aborted)
        => NeedsBackend(tasks[t].batch) \subseteq tasks[t].called

\* C7: a batch submitted with one hash already in pendingHashes and one new hash
\* sends only the new one to the backend, and does not abort the task that holds
\* the hash already in flight.
C7_InFlightSegmentNotResent ==
    \A t \in TaskIds :
        /\ tasks[t].hasNew => tasks[t].called \cap tasks[t].dup = {}
        /\ tasks[t].abortedBy # "overlap"

\* C8: at most maxConcurrency backend calls are outstanding at any time.
C8_BoundedOutstandingCalls ==
    Cardinality({t \in TaskIds : Awaiting(t)}) <= maxConcurrency

\* C9: a code segment is never sent to the backend, and what is stored for it is its
\* original text.
C9_CodePassThrough ==
    /\ \A t \in TaskIds : \A i \in 1..Len(tasks[t].batch) :
            tasks[t].batch[i].type = "code"
            => /\ i \notin tasks[t].called
               /\ (tasks[t].pc = "db" /\ tasks[t].idx = i)
                    => tasks[t].resp = Row(tasks[t].batch[i].originalText)
    /\ \A c \in CodeContents : database[generateHash(c)] \in {NoRow, Row(c)}

\* C9 witness: a code segment has been stored, and the text segment after it in the
\* same batch has been sent to the backend.
C9_Witness ==
    \E t \in TaskIds : \E i \in 1..Len(tasks[t].batch) :
        /\ tasks[t].batch[i].type = "code"
        /\ i \in tasks[t].partial
        /\ database[tasks[t].batch[i].hash] = Row(tasks[t].batch[i].originalText)
        /\ tasks[t].called # {}

(***************************************************************************)
(* Claims about LogicController.handleHover, checked under SpecLCFair.     *)
(***************************************************************************)
\* C4: handleHover returns without waiting for a backend call: in every execution
\* all the calls made end up returned, whether or not any backend call, or any task,
\* ever completes (SpecLCFair gives the translation backend and the task timers no
\* fairness).
C4_HoverReturnsWithoutBackend ==
    <>[](\A h \in HoverIds : hover[h].pc \in {"none", "returned"})

\* C4 witness: a handleHover call has returned a hover while the task it submitted
\* has a backend call outstanding.
C4_Witness ==
    \E h \in HoverIds :
        /\ hover[h].pc = "returned"
        /\ hover[h].result = "hover"
        /\ hover[h].task # 0
        /\ tasks[hover[h].task].pc = "call"

(***************************************************************************)
(* Claims about the hover provider, checked under SpecHP.                  *)
(***************************************************************************)
InProgress == {c \in ProvideIds : provideCalls[c].pc = "await"}

\* C6: while a provideHover call is being processed, isInsideHover is true, and a
\* further provideHover call returns no result at once, starts no translation and
\* leaves the guard held: the flag is set exactly while some call is in progress, at
\* most one call is, and the step of a call turned away by the guard changes neither
\* the flag, nor the set of hashes in translation, nor the backend calls, nor the cache.
C6_GuardedCallReturnsAtOnce ==
    /\ [](isInsideHover <=> InProgress # {})
    /\ [](Cardinality(InProgress) <= 1)
    /\ [][\A c \in ProvideIds :
            (InProgress # {} /\ provideCalls[c].pc = "none" /\ provideCalls'[c].pc # "none")
            => /\ provideCalls'[c].pc = "returned"
               /\ provideCalls'[c].result = "guarded"
               /\ isInsideHover'
               /\ InProgress' = InProgress
               /\ translating' = translating
               /\ backendCalls' = backendCalls
               /\ translationCache' = translationCache]_vars

\* C6 witness: a call has been turned away by the guard while another call, made
\* before it, is still in progress with the guard held.
C6_Witness ==
    \E c1, c2 \in ProvideIds :
        /\ c1 < c2
        /\ provideCalls[c1].pc = "await"
        /\ provideCalls[c2].pc = "returned"
        /\ provideCalls[c2].result = "guarded"
        /\ isInsideHover

(***************************************************************************)
(* Claims about the serial queue and triggerHoverRefresh, under SpecSQ.    *)
(***************************************************************************)
\* no refresh is scheduled or running, and the queue has ended: without a new hover
\* request or command nothing requests editor.action.showHover any more
NoRefreshToCome ==
    /\ \A tm \in clockTimers : tm.id \notin {"refresh", "queue", "command"}
    /\ ~showHoverPending
    /\ queuePc = "idle"

\* C5: a paragraph translation that settles while the refresh cap is not reached is
\* followed by a request of editor.action.showHover: the renderer never comes to rest
\* with a settled result that neither a showHover request, nor the end of one, nor
\* a rendering of the hover has followed.
C5_SettledResultIsRefreshed ==
    NoRefreshToCome => unshown = {}

\* C10: after a paragraph's backend call has failed, no backend call is issued for
\* its hash unless retranslateParagraph was invoked for it since.
C10_NoCallAfterFailure ==
    queuePc = "call" => Head(pendingParagraphs) \notin failed

(***************************************************************************)
(* The cache module and the life cycle (SpecCM)                            *)
(***************************************************************************)
\* the step is a call `op` of the cache module
IsCall(op) ==
    /\ lastCall'.n # lastCall.n \/ lastCall'.op # lastCall.op
    /\ lastCall'.op = op

ExpiredHashes == {h \in ParagraphHashes : translationCache[h].present
                                          /\ translationCache[h].expired}

\* C11: getCachedTranslation never returns the text of an entry older than
\* CACHE_EXPIRE_TIME and leaves the cache as it is; such an entry leaves the cache
\* by no call but the removing ones (cleanupExpiredCache, deleteCache,
\* clearAllCache, the start of a new host); cleanupExpiredCache removes exactly
\* the expired entries and returns their number.
C11_ExpiredEntryKeptUntilCleanup ==
    /\ [][IsCall("getCachedTranslation") =>
            /\ lastCall'.hash \in ExpiredHashes => lastCall'.text = ""
            /\ translationCache' = translationCache]_vars
    /\ [][\A h \in ExpiredHashes :
            ~translationCache'[h].present =>
                lastCall'.op \in {"cleanupExpiredCache", "deleteCache", "clearAllCache",
                                  "initializeCache"}]_vars
    /\ [][IsCall("cleanupExpiredCache") =>
            /\ \A h \in ExpiredHashes : ~translationCache'[h].present
            /\ \A h \in ParagraphHashes \ ExpiredHashes :
                  /\ translationCache'[h].present = translationCache[h].present
                  /\ translationCache[h].present =>
                        /\ translationCache'[h].text = translationCache[h].text
                        /\ ~translationCache'[h].expired
            /\ lastCall'.count = Cardinality(ExpiredHashes)]_vars

\* getCachedTranslation has just returned null for an entry that is in the cache
\* and has expired
C11_Witness ==
    /\ lastCall.op = "getCachedTranslation"
    /\ lastCall.text = ""
    /\ lastCall.hash \in ExpiredHashes

C15_SavedEntriesAreLoaded ==
    [][phase = "starting" /\ phase' = "running" =>
         \A e \in savedBefore :
            e[2].text = getCachedTranslation(e[1], translationCache')]_vars

(***************************************************************************)
(* TranslationDatabase (SpecDB)                                            *)
(***************************************************************************)
\* C12: when setTranslation has run twice for an original with the same
\* translated text, translation_data holds exactly one row of that hash and the
\* row's access_count is the number of reads of the row; the writes do not count.
C12_AccessCountCountsReads ==
    \A h \in DbHashes :
        Len(written[h]) = 2 /\ written[h][1] = written[h][2] =>
            /\ Cardinality(RowsOf(translation_data, h)) = 1
            /\ \A r \in RowsOf(translation_data, h) : r.access_count = reads[h]

\* the step is sqlite3 running the statement of a setTranslation for a hash that
\* has a row
IsRewrite(c) ==
    /\ dbCalls[c].op = "setTranslation"
    /\ dbCalls[c].pc = "run"
    /\ dbCalls'[c].pc = "done"
    /\ RowsOf(translation_data, dbCalls[c].hash) # {}

\* C13: setTranslation for an original that has a row updates that row: the
\* number of rows is unchanged, the row keeps its create_time and holds the new
\* text; and getTranslation resolves with the text written last.
C13_RewriteUpdatesTheRow ==
    /\ [][\A c \in DbCallIds : IsRewrite(c) =>
            /\ Cardinality(translation_data') = Cardinality(translation_data)
            /\ \A old \in RowsOf(translation_data, dbCalls[c].hash) :
               \A new \in RowsOf(translation_data', dbCalls[c].hash) :
                    /\ new.create_time = old.create_time
                    /\ new.translated_text = dbCalls[c].text]_vars
    /\ [][\A c \in DbCallIds :
            dbCalls[c].pc = "select" /\ dbCalls'[c].pc = "done"
                /\ dbCalls[c].op = "getTranslation"
                /\ written[dbCalls[c].hash] # <<>> =>
            dbCalls'[c].result = written[dbCalls[c].hash][Len(written[dbCalls[c].hash])]]_vars

\* an original was written at one time and written again, with another text, at
\* a later time, and a getTranslation has resolved with the second text
C13_Witness ==
    \E c \in DbCallIds, h \in DbHashes :
        /\ Len(written[h]) = 2
        /\ written[h][1] # written[h][2]
        /\ \E r \in RowsOf(translation_data, h) : r.create_time < r.last_access_time
        /\ dbCalls[c].op = "getTranslation"
        /\ dbCalls[c].pc = "done"
        /\ dbCalls[c].hash = h
        /\ dbCalls[c].result = written[h][2]

(***************************************************************************)
(* TextSegmenter.segmentText (SpecSG)                                      *)
(***************************************************************************)
IsFenceLine(line) == startsWithFence(trim(line))

\* a line that is no delimiter and not blank
IsContentLine(line) == HasText(line) /\ ~IsFenceLine(line)

RECURSIVE ContentsOf(_)
\* the lines of the contents of the segments, in order
ContentsOf(segments) ==
    IF segments = <<>> THEN <<>>
    ELSE segments[1].content \o ContentsOf(Tail(segments))

\* C16: joining the contents of the segments in order, with the delimiter lines
\* put back around each code segment, reproduces the text.  Stated through what
\* it implies whatever the delimiters and the blank lines put back: the lines
\* with content of the text, delimiters apart, are the lines with content of the
\* segments, in order.
C16_RoundTrip ==
    segDone => SelectSeq(ContentsOf(segResult), HasText) = SelectSeq(segText, IsContentLine)

RECURSIVE ClosedBlocks(_, _, _, _, _)
\* the lines between each opening delimiter and its closing delimiter, block by
\* block
ClosedBlocks(lines, i, open, block, blocks) ==
    IF i > Len(lines) THEN blocks
    ELSE IF IsFenceLine(lines[i])
    THEN IF open THEN ClosedBlocks(lines, i + 1, FALSE, <<>>, Append(blocks, block))
         ELSE ClosedBlocks(lines, i + 1, TRUE, <<>>, blocks)
    ELSE IF open THEN ClosedBlocks(lines, i + 1, TRUE, Append(block, lines[i]), blocks)
    ELSE ClosedBlocks(lines, i + 1, FALSE, <<>>, blocks)

BlocksOf(lines) == ClosedBlocks(lines, 1, FALSE, <<>>, <<>>)

\* every delimiter of the text has its partner
Balanced(lines) == Len(SelectSeq(lines, IsFenceLine)) % 2 = 0

IsCode(segment) == segment.type = "code"

\* the contents of the code segments, in order
CodeContentsOf(segments) ==
    LET code == SelectSeq(segments, IsCode)
    IN  [k \in 1..Len(code) |-> code[k].content]

HasLines(block) == block # <<>>

HasTextLines(block) == SelectSeq(block, HasText) # <<>>

\* the k-th of `blocks` is the content of the k-th code segment, and a balanced
\* text has no other code segment
OneCodeSegmentEach(blocks) ==
    LET code == CodeContentsOf(segResult)
    IN  /\ Len(code) >= Len(blocks)
        /\ \A k \in 1..Len(blocks) : code[k] = blocks[k]
        /\ Balanced(segText) => Len(code) = Len(blocks)

\* C17 as stated: the lines between the delimiters of every closed block are,
\* in order, the content of exactly one code segment.
C17_FencedBlockInOneSegment ==
    segDone => OneCodeSegmentEach(SelectSeq(BlocksOf(segText), HasLines))

\* C17, amended: the lines between the delimiters of every closed block that has
\* a line with text are, in order, the content of exactly one code segment; a
\* closed block of blank lines gives no segment.
C17_BlockWithTextInOneSegment ==
    segDone => OneCodeSegmentEach(SelectSeq(BlocksOf(segText), HasTextLines))

\* segmentText has returned on a closed block that holds a 200-character
\* sentence and a further line, where text would have been split
C17_Witness ==
    /\ segDone
    /\ \E k \in 1..Len(BlocksOf(segText)) : BlocksOf(segText)[k] = <<"L.", "a">>

WhitespaceOnly(lines) == SelectSeq(lines, HasText) = <<>>

\* C18 as stated: segmentText does not throw, and it returns exactly one segment
\* for an empty or whitespace-only text.
C18_OneSegmentForBlankText ==
    segDone /\ WhitespaceOnly(segText) => Len(segResult) = 1

\* C18, amended: segmentText does not throw: it returns segments with content,
\* typed code or text; for an empty or whitespace-only text it returns none.
C18_NoSegmentForBlankText ==
    segDone =>
        /\ \A k \in 1..Len(segResult) :
              segResult[k].type \in {"code", "text"} /\ HasTextLines(segResult[k].content)
        /\ WhitespaceOnly(segText) => segResult = <<>>

\* segmentText has returned on a text of several blank lines
C18_Witness ==
    /\ segDone
    /\ WhitespaceOnly(segText)
    /\ Len(segText) > 1
    /\ \E i \in 1..Len(segText) : segText[i] = " "

(***************************************************************************)
(* The commands retranslate and switchService (SpecCD)                     *)
(***************************************************************************)
\* the hover refresh the retranslate command asked for has shown the hover of
\* the text again, in translation mode
RefreshServed ==
    LET c == retranslated.call
    IN  /\ retranslated.stage = "served"
        /\ c # 0
        /\ md5(provideCalls[c].text) = retranslated.hash
        /\ provideCalls[c].result \in {"pending", "translated"}

\* C19: the retranslate command invalidates the cache entry of the text and the
\* text is submitted for translation exactly once: when the hover of the text has
\* been refreshed for the command, one translation call of the text has been
\* started since the command.
C19_RetranslateResubmitsOnce ==
    RefreshServed => retranslated.submitted = 1

\* C20: from the moment a switch of the service completes, the in-flight set is
\* empty at that moment and the cache holds no translation that a call to the
\* service switched away from produced.
C20_NoTranslationOfOldBackend ==
    oldProvider # NoService =>
        /\ translatingAtSwitch = {}
        /\ \A h \in ParagraphHashes :
              translationCache[h].present => producedBy[h] # oldProvider

(***************************************************************************)
(* BaseTranslationService.httpRequest (SpecHR)                             *)
(***************************************************************************)
Deadline(c) == requests[c].start + requests[c].timeout

\* C21: every httpRequest call settles no later than its timeout after it was
\* made: while it is outstanding the timeout has not passed and the timer or its
\* abort is in force; once the signal is aborted the call fails; and a settled
\* call has settled by its deadline with its timer cancelled.
C21_SettlesWithinTimeout ==
    \A c \in RequestIds :
        /\ requests[c].pc \notin {"none", "settled"} =>
              /\ httpNow <= Deadline(c)
              /\ requests[c].timeoutId \/ requests[c].aborted
        /\ requests[c].pc = "settled" =>
              /\ requests[c].settledAt <= Deadline(c)
              /\ ~requests[c].timeoutId
              /\ requests[c].aborted => requests[c].outcome # "ok"

\* a call without a configured timeout was aborted 30 s after it was made, while
\* the body of its response was being read, and has failed with the timeout error
C21_Witness ==
    \E c \in RequestIds :
        /\ requests[c].pc = "settled"
        /\ requests[c].outcome = "timeout"
        /\ requests[c].timeout = DefaultTimeout
        /\ requests[c].settledAt = Deadline(c)

(***************************************************************************)
(* TranslationDataManager (SpecDM)                                         *)
(***************************************************************************)
\* the text the last setTranslation statement that ran wrote for the hash
LatestWritten(hash) == written[hash][Len(written[hash])]

\* the entries a batch call owes: for each of its texts that has been stored, the
\* text with its latest stored translation
StoredOf(texts) ==
    {<<texts[i], LatestWritten(generateHash(texts[i]))>> :
        i \in {j \in 1..Len(texts) : /\ generateHash(texts[j]) \in DbHashes
                                     /\ written[generateHash(texts[j])] # <<>>}}

\* C22: a getTranslation that reads after setTranslation(o, t) has written
\* resolves with the latest t; and getTranslationsBatch(texts) resolves with an
\* entry, the latest stored translation, for every text of texts that has been
\* stored, and with no entry for a text that was never stored.
C22_StoredIsReturned ==
    /\ [][\A c \in DbCallIds :
            dbCalls[c].pc = "select" /\ dbCalls'[c].pc = "done"
                /\ dbCalls[c].op = "getTranslation"
                /\ written[dbCalls[c].hash] # <<>> =>
            dbCalls'[c].result = LatestWritten(dbCalls[c].hash)]_vars
    /\ [][\A b \in BatchCallIds :
            batchCalls[b].pc = "select" /\ batchCalls'[b].pc = "done" =>
            batchCalls'[b].result = StoredOf(batchCalls[b].texts)]_vars

(***************************************************************************)
(* ConfigDatabase: deleting the configuration of a provider                *)
(***************************************************************************)
\* the statement of a deleteServiceConfig call runs in this step and the call resolves
DeleteResolves(c) ==
    /\ configCalls[c].op = "delete"
    /\ configCalls[c].pc = "queued"
    /\ configCalls'[c].pc = "resolved"

\* the statement of a getServiceConfig call runs in this step and the call resolves
GetResolves(c) ==
    /\ configCalls[c].op = "get"
    /\ configCalls[c].pc = "queued"
    /\ configCalls'[c].pc = "resolved"

\* a deleteServiceConfig(p) that resolves leaves no row of p and every other row
\* as it was, and a getServiceConfig(p) that runs with no row of p returns null
DeleteFrame ==
    /\ \A c \in ConfigCallIds : DeleteResolves(c) =>
          /\ selectServiceConfigSQL(service_config', configCalls[c].provider) = {}
          /\ \A q \in Providers \ {configCalls[c].provider} :
                selectServiceConfigSQL(service_config', q)
                    = selectServiceConfigSQL(service_config, q)
    /\ \A g \in ConfigCallIds :
          /\ GetResolves(g)
          /\ selectServiceConfigSQL(service_config, configCalls[g].provider) = {}
          => configCalls'[g].result = NoConfig

\* C23 as stated: deleteServiceConfig(p) makes getServiceConfig(p) return null and
\* leaves the stored configuration of every other provider unchanged, so the number
\* of stored provider configurations drops by exactly one
C23_DeleteDropsByOne ==
    [][/\ DeleteFrame
       /\ \A c \in ConfigCallIds : DeleteResolves(c) =>
             Cardinality(service_config') = Cardinality(service_config) - 1]_vars

\* C23 amended: deleteServiceConfig(p) makes getServiceConfig(p) return null and
\* leaves the stored configuration of every other provider unchanged, so the number
\* of stored provider configurations drops by exactly one when p had a stored
\* configuration and stays as it was when p had none
C23_DeleteDropsStoredOne ==
    [][/\ DeleteFrame
       /\ \A c \in ConfigCallIds : DeleteResolves(c) =>
             Cardinality(service_config') = Cardinality(service_config)
                 - Cardinality(selectServiceConfigSQL(service_config,
                                                      configCalls[c].provider))]_vars

\* the stored configuration of baidu was deleted, the one of openai is still there,
\* and a getServiceConfig('baidu') called after the deletion returned null
C23_Witness ==
    /\ \A c \in ConfigCallIds : configCalls[c].op # "set"
    /\ service_config = {r \in StoredConfigs : r.service_provider = "openai"}
    /\ \E c, g \in ConfigCallIds :
          /\ c < g
          /\ configCalls[c].op = "delete" /\ configCalls[c].provider = "baidu"
          /\ configCalls[c].pc = "resolved"
          /\ configCalls[g].op = "get" /\ configCalls[g].provider = "baidu"
          /\ configCalls[g].pc = "resolved" /\ configCalls[g].result = NoConfig

(***************************************************************************)
(* More claims about TranslationTaskManager                                *)
(***************************************************************************)
\* the setTranslation call of task t returns in this step: the row is written
WritesRow(t) ==
    /\ tasks[t].pc = "db"
    /\ <<tasks'[t].pc, tasks'[t].idx>> # <<"db", tasks[t].idx>>

\* C25: once a batch has been cancelled, no translation result of that batch is
\* written to the store, even when a backend call issued before the cancellation
\* returns later.
C25_CancelledBatchWritesNothing ==
    [][\A t \in TaskIds : tasks[t].aborted => ~WritesRow(t)]_vars

\* task t has been submitted and executeTask has not ended for it
Active(t) == tasks[t].pc \in {"timer", "gate", "call", "db"}

\* C26: every hash of a task that is pending or running and has not been cancelled
\* is in pendingHashes; the cleanup of another task never takes it out.
C26_ActiveHashesArePending ==
    \A t \in TaskIds :
        (Active(t) /\ ~tasks[t].aborted) => HashesOf(tasks[t].batch) \subseteq pendingHashes

\* the translation of the current segment of task t settles in this step: its
\* setTranslation returns, or its backend call throws
SegmentSettles(t) ==
    \/ WritesRow(t)
    \/ tasks[t].pc = "call" /\ tasks'[t].pc = "done"

\* executeTask ends for task t in this step through its finally block (a task
\* found aborted at its start returns before the try statement)
EndsThroughFinally(t) ==
    /\ Active(t)
    /\ tasks'[t].pc = "done"
    /\ ~(tasks[t].pc = "timer" /\ tasks[t].aborted)

C29_CompleteAfterAllSettled ==
    \A t \in TaskIds :
        tasks[t].complete =>
            /\ ~tasks[t].aborted
            /\ ~tasks[t].error
            /\ tasks[t].pc = "done"
            /\ \A i \in 1..Len(tasks[t].batch) :
                  \/ tasks[t].batch[i].translatedText # ""
                  \/ /\ i \in tasks[t].partial
                     /\ NoRow # database[tasks[t].batch[i].hash]

\* the completion event has fired for a batch of two segments both stored, and a
\* cancelled task has ended without it
C29_Witness ==
    \E t, u \in TaskIds :
        /\ tasks[t].complete /\ tasks[t].partial = {1, 2}
        /\ tasks[u].aborted /\ tasks[u].pc = "done" /\ ~tasks[u].complete
        /\ tasks[u].partial # {}

(***************************************************************************)
(* The hover provider: calls in flight for one hash                        *)
(***************************************************************************)
\* C27: whatever the interleaving of hover requests, retranslate commands and
\* backend completions, at most one translateWithFactory call is outstanding for
\* a hash at any time.
C27_OneCallInFlightPerHash ==
    \A k1 \in serviceCalls, k2 \in serviceCalls : k1.hash = k2.hash => k1.id = k2.id

(***************************************************************************)
(* triggerHoverRefresh: debounce and cooldown                              *)
(***************************************************************************)
RefreshTimers == {tm \in clockTimers : tm.id = "refresh"}

CooldownTimers == {tm \in clockTimers : tm.id = "cooldown"}

\* the re-renders under way: one whose debounce timer is pending, one whose
\* showHover command has not ended, one whose cooldown has not run out
RefreshesUnderWay ==
    Cardinality(RefreshTimers) + (IF showHoverPending THEN 1 ELSE 0)
        + Cardinality(CooldownTimers)

\* the step is a call of triggerHoverRefresh (the serial queue calls it when a
\* paragraph has settled)
CallsTriggerHoverRefresh == queuePc = "call" /\ queuePc' = "delay"

\* the step requests a re-render: editor.action.showHover is executed
RequestsRerender == ~showHoverPending /\ showHoverPending'

\* C30: a burst of triggerHoverRefresh calls within one debounce window brings one
\* re-render request, and no other is issued until the cooldown of 1 s after the end
\* of that re-render has run out.  The first call of a burst that no cooldown absorbs
\* sets the one debounce timer, 500 ms ahead, and starts the cooldown; the calls that
\* follow until the cooldown is over set nothing; the re-render is requested when
\* that timer fires; the cooldown is over when a timer set for 1 s at the end of the
\* re-render fires, and until then no other re-render is under way.
C30_OneRerenderPerBurst ==
    /\ [](/\ RefreshesUnderWay <= 1
          /\ refreshCooldown <=> RefreshesUnderWay = 1
          /\ refreshCount < MAX_REFRESH_COUNT)
    /\ [][/\ CallsTriggerHoverRefresh =>
                IF refreshCooldown
                THEN /\ RefreshTimers' = RefreshTimers
                     /\ refreshCooldown'
                ELSE /\ RefreshTimers' = {Timer("refresh", RefreshDebounceDelay)}
                     /\ refreshCooldown'
          /\ (RefreshTimers = {} /\ RefreshTimers' # {}) => CallsTriggerHoverRefresh
          /\ RequestsRerender =>
                /\ RefreshTimers = {Due("refresh")}
                /\ RefreshTimers' = {}
          /\ (showHoverPending /\ ~showHoverPending') =>
                CooldownTimers' = {Timer("cooldown", RefreshCooldownDelay)}
          /\ (refreshCooldown /\ ~refreshCooldown') => CooldownTimers = {Due("cooldown")}
      ]_<<clockTimers, showHoverPending, refreshCooldown, refreshCount, queuePc>>

\* two paragraphs have settled within one debounce window and one timer is pending
C30_Witness ==
    /\ Cardinality(unshown) = 2
    /\ RefreshTimers = {Timer("refresh", RefreshDebounceDelay)}
    /\ refreshCount = 1

(***************************************************************************)
(* TranslationTaskManager: the concurrency loop                            *)
(***************************************************************************)
\* C24: if every backend call returns, every task that is not cancelled passes the
\* concurrency loop and ends, and its hashes leave pendingHashes: in the end no task
\* that was not cancelled is pending, in the loop or running, and no hash of a
\* task is in pendingHashes.
C24_EveryTaskFinishes ==
    <>[](\A t \in TaskIds :
            /\ Active(t) => tasks[t].aborted
            /\ HashesOf(tasks[t].batch) \cap pendingHashes = {})

(***************************************************************************)
(* triggerHoverRefresh: the refresh counter                                *)
(***************************************************************************)
ResetTimers == {tm \in clockTimers : tm.id = "reset"}

\* the step sets the counter back to zero
ResetsRefreshCount == refreshCount > 0 /\ refreshCount' = 0

\* a call of triggerHoverRefresh scheduled a re-render less than 5 s ago: the
\* timer of 5 s it set has not run out
RefreshRequestedLately == \E tm \in ResetTimers : tm.left > 0

\* C31: at most 10 re-render requests are issued between two quiet periods.  The
\* refresh counter is set back to zero only after 5 s in which no refresh was
\* requested, and no re-render is scheduled while the counter is at 10.
C31_CounterResetAfterQuietPeriod ==
    [][/\ ResetsRefreshCount => ~RefreshRequestedLately
       /\ (RefreshTimers' # RefreshTimers /\ RefreshTimers' # {}) =>
              refreshCount < MAX_REFRESH_COUNT
      ]_<<clockTimers, refreshCount>>

(***************************************************************************)
(* triggerHoverRefresh: a failed re-render                                 *)
(***************************************************************************)
\* the step is the end of a showHover command that failed
RerenderFails == showHoverPending /\ ~showHoverPending' /\ showHoverFailed'

\* the cooldown that follows a failed showHover command has not run out
FailedRerenderCoolingDown == showHoverFailed /\ CooldownTimers # {}

\* C32: if the re-render call (editor.action.showHover) fails, the failure is
\* swallowed, the call is not retried, and the cooldown is still released afterwards
\* so that a later triggerHoverRefresh can request a re-render.  The failure changes
\* nothing of the queue and its loop, of the counter and of the cooldown, and sets the
\* cooldown timer of 1 s; until that timer has fired no showHover is requested and
\* none is scheduled; and the timer fires: the cooldown is released.
C32_FailedRerenderReleasesCooldown ==
    /\ [][/\ RerenderFails =>
                /\ CooldownTimers' = {Timer("cooldown", RefreshCooldownDelay)}
                /\ RefreshTimers' = {}
                /\ refreshCooldown /\ refreshCooldown'
                /\ UNCHANGED <<pendingParagraphs, isProcessing, queuePc, refreshCount>>
          /\ FailedRerenderCoolingDown =>
                /\ ~RequestsRerender
                /\ RefreshTimers' = {}
                /\ refreshCooldown
      ]_<<clockTimers, showHoverPending, refreshCooldown, refreshCount, queuePc,
          pendingParagraphs, isProcessing, showHoverFailed>>
    /\ FailedRerenderCoolingDown ~> ~refreshCooldown

\* after a failed showHover command and its cooldown, a later call of
\* triggerHoverRefresh has scheduled a re-render
C32_Witness ==
    /\ showHoverFailed
    /\ CooldownTimers = {}
    /\ RefreshTimers = {Timer("refresh", RefreshDebounceDelay)}

(***************************************************************************)
(* TextSegmenter.segmentText: the end of the text and the text lines       *)
(***************************************************************************)
RECURSIVE OpenBlock(_, _, _, _)
\* the lines after the last opening delimiter of a text that ends inside a code
\* block; <<>> for a text that ends outside
OpenBlock(lines, i, open, block) ==
    IF i > Len(lines) THEN (IF open THEN block ELSE <<>>)
    ELSE IF IsFenceLine(lines[i]) THEN OpenBlock(lines, i + 1, ~open, <<>>)
    ELSE IF open THEN OpenBlock(lines, i + 1, TRUE, Append(block, lines[i]))
    ELSE OpenBlock(lines, i + 1, FALSE, <<>>)

\* C33: for a text that ends inside an unterminated code fence, segmentText emits
\* all the lines accumulated after the opening delimiter as one code segment, the
\* last one, and none of those lines is lost.  Stated for the blocks that have a
\* line with text: a segment of blank lines is dropped wherever it stands.
C33_UnterminatedFenceKeepsItsLines ==
    LET block == OpenBlock(segText, 1, FALSE, <<>>)
    IN  segDone /\ ~Balanced(segText) /\ HasTextLines(block) =>
            /\ segResult # <<>>
            /\ IsCode(segResult[Len(segResult)])
            /\ segResult[Len(segResult)].content = block

\* the accumulated lines are at least 200 characters long, joined, and the last of
\* them ends with a sentence terminator
Closable(lines) ==
    /\ lines # <<>>
    /\ joinLength(lines) >= 200
    /\ endsWithTerminator(trim(lines[Len(lines)]))

\* the locals of segmentText when the loop comes to line i of the text
LocalsAt(i) == SegmenterLoop(SubSeq(segText, 1, i - 1), 1, SegmenterStart)

IsRead(call) == call.op \in {"getTranslation", "getByHash"}

\* the step is the DELETE of the cleanupExpiredData call c
CleanupRuns(c) ==
    /\ dbCalls[c].op = "cleanupExpiredData"
    /\ dbCalls[c].pc = "run"
    /\ dbCalls'[c].pc = "done"

\* C36: getByHash and getTranslation treat an entry whose age exceeds the TTL as
\* absent and do not delete it; such an entry is removed only by
\* cleanupExpiredData, which deletes the entries whose last access is older than
\* the TTL and returns the number removed.  A read that found the row expired
\* resolves with null; a row leaves the table in the DELETE of a cleanupExpiredData
\* call only; that statement removes the rows last accessed before its cutoff time,
\* no other, and the call resolves with their number.
C36_ExpiredEntryAbsentToReaders ==
    /\ [](\A c \in DbCallIds :
             (IsRead(dbCalls[c]) /\ dbCalls[c].pc = "done" /\ dbCalls[c].expired) =>
                 dbCalls[c].result = DbNull)
    /\ [][/\ (\E h \in DbHashes : RowsOf(translation_data, h) # {}
                                    /\ RowsOf(translation_data', h) = {}) =>
                \E c \in DbCallIds : CleanupRuns(c)
          /\ \A c \in DbCallIds :
                CleanupRuns(c) =>
                   /\ translation_data' =
                         translation_data \ ExpiredRows(translation_data, dbCalls[c].now)
                   /\ dbCalls'[c].count =
                         Cardinality(ExpiredRows(translation_data, dbCalls[c].now))
      ]_<<translation_data, dbCalls>>

(***************************************************************************)
(* The serial translation queue                                            *)
(***************************************************************************)
\* a translateSingleParagraph call of the queue's loop is outstanding
CallInFlight == queuePc = "call"

\* q is p with paragraphs put at its end, or p itself
Extends(q, p) == Len(q) >= Len(p) /\ SubSeq(q, 1, Len(p)) = p

\* C37: in the serial translation queue at most one backend call is in flight at
\* any time, and the paragraphs are sent to the backend in the order in which they
\* were put in the queue, for any interleaving of enqueue operations and
\* completions.  One loop runs at most: it is running exactly while isProcessing
\* is true, and a loop starts only when none is running.  The call in flight is the
\* call for the first paragraph of the queue; a paragraph enters the queue at its
\* end and leaves it from its front, when its call has returned; and the loop
\* calls the backend next for the paragraph then first.
C37_OneCallInQueueOrder ==
    /\ [](/\ isProcessing <=> queuePc # "idle"
          /\ CallInFlight => pendingParagraphs # <<>>)
    /\ [][/\ (~isProcessing /\ isProcessing') => queuePc = "idle" /\ CallInFlight'
          /\ \/ Extends(pendingParagraphs', pendingParagraphs)
             \/ /\ pendingParagraphs # <<>>
                /\ pendingParagraphs' = Tail(pendingParagraphs)
                /\ CallInFlight /\ ~CallInFlight'
          /\ (CallInFlight /\ CallInFlight') =>
                Head(pendingParagraphs') = Head(pendingParagraphs)
          /\ (CallInFlight /\ ~CallInFlight') =>
                pendingParagraphs' = Tail(pendingParagraphs)
      ]_<<pendingParagraphs, isProcessing, queuePc>>

\* the call for q is in flight and p was put in the queue behind it
C37_Witness ==
    /\ CallInFlight
    /\ pendingParagraphs = <<md5("q"), md5("p")>>

(***************************************************************************)
(* LogicController.handleHover: re-entry                                   *)
(***************************************************************************)
\* the step is the call h of handleHover
IsCalled(h) == hover[h].pc = "none" /\ hover'[h].pc # "none"

\* a handleHover call at pos is awaiting vscode.executeHoverProvider, which asks
\* every hover provider, this one too, for the hover at pos
OuterInProgress(pos) == \E h \in HoverIds : hover[h].pc = "extract" /\ hover[h].pos = pos

\* C38: a handleHover invocation that is re-entered through
\* vscode.executeHoverProvider while an outer handleHover for the same position is
\* still in progress returns null without calling executeHoverProvider again, for
\* any interleaving with hover requests at other positions.  Stated for the calls
\* made less than POSITION_THRESHOLD after the last call that passed the guard, the
\* case in which the guard can act at all.
C38_ReenteredHoverReturnsNull ==
    [][\A h \in HoverIds :
          (IsCalled(h) /\ isEnabled /\ recentHover /\ OuterInProgress(hover'[h].pos)) =>
              /\ hover'[h].pc = "returned"
              /\ hover'[h].result = "null"
      ]_nextHover

\* the paragraph of the hash is in the queue
InQueue(hash) == \E i \in 1..Len(pendingParagraphs) : pendingParagraphs[i] = hash

\* C39: if every backend call returns and only hover requests occur, every
\* paragraph put into the serial translation queue is eventually processed and its
\* hash removed from state.translating; whenever the queue is not empty a
\* processing loop is active (isProcessing is true).  The hashes in translation are
\* those of the paragraphs in the queue, and each of them leaves both.
C39_QueuedParagraphIsProcessed ==
    /\ [](pendingParagraphs # <<>> => isProcessing)
    /\ [](\A hash \in ParagraphHashes : InQueue(hash) <=> hash \in translating)
    /\ \A hash \in ParagraphHashes : InQueue(hash) ~> ~InQueue(hash)
    /\ \A hash \in ParagraphHashes : (hash \in translating) ~> (hash \notin translating)

\* the queue has been worked off: the call for p failed, the call for q brought a
\* translation, nothing is in translation and the loop has ended
C39_Witness ==
    /\ queuePc = "idle"
    /\ ~isProcessing
    /\ pendingParagraphs = <<>>
    /\ translating = {}
    /\ failed = {md5("p")}
    /\ translationCache[md5("q")].present

(***************************************************************************)
(* The translation cache and its durable copy                              *)
(***************************************************************************)
\* C40: every change to the in-memory translation cache (set, delete, clear),
\* the deletions made by the retranslate and switch-service commands and by
\* credential changes among them, is eventually written to the durable store if
\* the extension stays active and no further change occurs: once the changes have
\* ended, globalState comes to hold the entries of the cache and keeps them.
C40_CacheChangesArePersisted ==
    <>[](globalState = ObjectFromEntries(translationCache))

====
